---- MODULE Spec2Model ----
(***************************************************************************)
(* Verification model of the sek8s control plane:                          *)
(*   - the admission controller's fan-out/merge (services/admission_       *)
(*     controller.py),                                                     *)
(*   - the cosign signature validator with its three caches and its        *)
(*     rate-limit backoff (validators/cosign.py),                          *)
(*   - the cache router with its download-state manager                    *)
(*     (system_manager/cache/router.py, util.py, models.py),               *)
(*   - the per-snapshot lifecycle of the cache manager and its map of      *)
(*     snapshots (system_manager/cache/manager.py),                        *)
(*   - its eviction by age and size (CacheManager.cleanup),                *)
(*   - verify_cache file by file (system_manager/cache/util.py),           *)
(*   - the registry validator and the policy validator with the namespace  *)
(*     policies (validators/registry.py, validators/opa.py, config.py),    *)
(*   - the signed-request authorization (services/util.py).                *)
(* Each subsystem has its own specification over its own variables; the    *)
(* variables of the other subsystems stay at their initial values.         *)
(***************************************************************************)
EXTENDS Integers, Sequences, FiniteSets, TLC

VARIABLES
    \* ---- admission controller ----
    admPc,          \* "idle" | "pending" | "done": position of validate_admission
    admReq,         \* the AdmissionReview request being processed
    admResults,     \* what asyncio.gather returned, one entry per validator
    admResp,        \* the response returned by validate_admission
    admEscaped,     \* TRUE when an exception left validate_admission
    metrics,        \* MetricsCollector counters
    admCount,       \* number of requests handled so far (bounds the counters)
    \* ---- authorize ----
    authPc,         \* "idle" | "done"
    authIn,         \* the request handed to _authorize
    authOut,        \* "ok" | "401" | "500"
    authLog,        \* history: the requests authorized so far
    authCount,      \* requests received so far
    authLoad,       \* the requests this run draws from
    \* ---- cosign validator ----
    cosNow,         \* time.time()
    cosTicks,       \* clock advances so far
    cosCount,       \* validate() calls started so far
    rateLimitUntil, \* CosignValidator._rate_limit_until (0: never limited)
    resultCache,    \* _result_cache: positive per-image results
    negativeCache,  \* _negative_cache: negative per-image results
    admissionCache, \* _admission_result_cache
    slots,          \* the validate() calls in flight
    ruleOrder,      \* the iteration order of the chutes rule set
    workload,       \* the requests this run draws from
    verifiedValid,  \* history: images whose verification has returned valid
    \* ---- cache router and download state (router.py, util.py, models.py) ----
    dlState,        \* DownloadStateManager._state: chute -> status or None
    dlDisk,         \* content of the cache directory of each chute
    dlHandlers,     \* the POST /cache/download handlers in flight
    dlTasks,        \* the run_download tasks created so far, in order
    dlCount,        \* download requests received so far
    \* ---- one HuggingFaceSnapshot of the cache manager (manager.py) ----
    snap,           \* _task, _reconciled and the positions of its coroutines
    snapDisk,       \* content of its directory
    completeMarker, \* .cache_complete exists
    staleMarker,    \* .cache_stale exists
    completeBasis,  \* history: the verify_cache outcomes .cache_complete was written after
    snapOps,        \* start_download / reconcile calls so far
    wroteOverMarker,\* history: a marker was written while the other one existed
    \* ---- the CacheManager map of snapshots (manager.py) ----
    chutes,         \* CacheManager._chutes: chute id -> snapshot object (0: none)
    objs,           \* the HuggingFaceSnapshot objects created so far
    mgrDisk,        \* content of the directory of each chute
    mgrCalls,       \* the start_download / sync_from_disk calls in flight
    mgrOps,         \* requests and pod writes so far
    mgrStep,        \* history: what the last step did
    mgrLock,        \* CacheManager._lock: the coroutine holding it, or None
    \* ---- registry and policy validators (registry.py, opa.py) ----
    valPc,          \* "idle" | "done"
    valWho,         \* which validator ran: "registry" | "opa"
    valReq,         \* the request handed to validate
    valReply,       \* how the POST to the policy engine ended
    valOut,         \* the ValidationResult returned
    \* ---- CacheManager.cleanup (manager.py) ----
    cleanupPc,      \* "idle" | "done"
    cleanupIn,      \* the tracked snapshots and the parameters of the call
    cleanupOut,     \* the CleanupResult and the chutes still tracked
    \* ---- verify_cache (cache/util.py) ----
    verifyPc,       \* "idle" | "done"
    verifyIn,       \* the manifest items and the snapshot directory
    verifyOut       \* the dict returned or the error raised

admVars == <<admPc, admReq, admResults, admResp, admEscaped, metrics, admCount>>
authVars == <<authPc, authIn, authOut, authLog, authCount, authLoad>>
cosVars == <<cosNow, cosTicks, cosCount, rateLimitUntil, resultCache, negativeCache,
             admissionCache, slots, ruleOrder, workload, verifiedValid>>
dlVars == <<dlState, dlDisk, dlHandlers, dlTasks, dlCount>>
snapVars == <<snap, snapDisk, completeMarker, staleMarker, completeBasis, snapOps,
             wroteOverMarker>>
mgrVars == <<chutes, objs, mgrDisk, mgrCalls, mgrOps, mgrStep, mgrLock>>
valVars == <<valPc, valWho, valReq, valReply, valOut>>
clVars == <<cleanupPc, cleanupIn, cleanupOut>>
vcVars == <<verifyPc, verifyIn, verifyOut>>

None == "none"

(***************************************************************************)
(* Admission controller                                                    *)
(***************************************************************************)

\* Bound on the number of admission requests (keeps the counters finite).
MaxAdmissions == 2

\* _init_validators appends OPAValidator, RegistryValidator, CosignValidator.
NumValidators == 3

ValidatorName(i) == <<"OPAValidator", "RegistryValidator", "CosignValidator">>[i]

\* f"{validator_name}: Internal error"
InternalErrorMsg(i) ==
    <<"OPAValidator: Internal error", "RegistryValidator: Internal error",
      "CosignValidator: Internal error">>[i]

\* The message and the warning a validator's ValidationResult may carry.
VMsg(i) == <<"opa-msg", "registry-msg", "cosign-msg">>[i]
VWarn(i) == <<"opa-warn", "registry-warn", "cosign-warn">>[i]

\* What gather(..., return_exceptions=True) yields for validator i: an
\* Exception instance, or a ValidationResult(allowed, messages, warnings).
ValidatorOutcomes(i) ==
    {[kind |-> "exception", allowed |-> FALSE, messages |-> <<>>, warnings |-> <<>>]}
    \cup
    [kind : {"result"}, allowed : BOOLEAN,
     messages : {<<>>, <<VMsg(i)>>}, warnings : {<<>>, <<VWarn(i)>>}]

UIDs == {"u1", None}
Kinds == {"Pod", "Service"}
Operations == {"CREATE", "DELETE"}

\* request.get("uid", "unknown")
RequestUid(req) == IF req.uid = None THEN "unknown" ELSE req.uid

\* sep.join(msgs): the strings in order with the separator between them.
RECURSIVE JoinSeq(_, _)
JoinSeq(msgs, sep) ==
    IF Len(msgs) = 0 THEN <<>>
    ELSE IF Len(msgs) = 1 THEN <<msgs[1]>>
    ELSE <<msgs[1], sep>> \o JoinSeq(Tail(msgs), sep)

\* "; ".join(messages) of _build_response
JoinMessages(msgs) == JoinSeq(msgs, "; ")

\* Variant of the result loop in which a denying validator does not clear
\* the allowed flag.
RECURSIVE MergeResultsKeepAllowed(_, _)
MergeResultsKeepAllowed(results, n) ==
    IF n = 0 THEN [allowed |-> TRUE, messages |-> <<>>, warnings |-> <<>>]
    ELSE LET acc == MergeResultsKeepAllowed(results, n - 1)
             r == results[n]
         IN IF r.kind = "exception"
            THEN [allowed |-> FALSE,
                  messages |-> Append(acc.messages, InternalErrorMsg(n)),
                  warnings |-> acc.warnings]
            ELSE [allowed |-> acc.allowed,
                  messages |-> IF r.allowed THEN acc.messages
                               ELSE acc.messages \o r.messages,
                  warnings |-> acc.warnings \o r.warnings]

\* The result loop of validate_admission over results[1..n]: the running
\* (allowed, messages, warnings) after the first n results.
RECURSIVE MergeResults(_, _)
MergeResults(results, n) ==
    IF n = 0 THEN [allowed |-> TRUE, messages |-> <<>>, warnings |-> <<>>]
    ELSE LET acc == MergeResults(results, n - 1)
             r == results[n]
         IN IF r.kind = "exception"
            THEN [allowed |-> FALSE,
                  messages |-> Append(acc.messages, InternalErrorMsg(n)),
                  warnings |-> acc.warnings]
            ELSE [allowed |-> acc.allowed /\ r.allowed,
                  messages |-> IF r.allowed THEN acc.messages
                               ELSE acc.messages \o r.messages,
                  warnings |-> acc.warnings \o r.warnings]

\* AdmissionController._build_response
BuildResponse(uid, allowed, messages, warnings) ==
    [uid |-> uid, allowed |-> allowed,
     hasStatus |-> messages # <<>>,
     statusMessage |-> JoinMessages(messages),
     hasWarnings |-> warnings # <<>>,
     warnings |-> warnings]

NoResponse == [uid |-> None, allowed |-> FALSE, hasStatus |-> FALSE,
               statusMessage |-> <<>>, hasWarnings |-> FALSE, warnings |-> <<>>]
NoRequest == [uid |-> None, kind |-> None, operation |-> None]

Decision(allowed) == IF allowed THEN "allowed" ELSE "denied"

\* MetricsCollector.record_validator_error; no call of it exists in the
\* package.
RecordValidatorError(m, i) == [m EXCEPT !.validatorErrors[i] = @ + 1]

\* MetricsCollector.record_admission_decision
RecordAdmissionDecision(m, allowed, kind, operation) ==
    [m EXCEPT !.total[Decision(allowed)] = @ + 1,
              !.byKind[<<kind, Decision(allowed)>>] = @ + 1,
              !.byOperation[<<operation, Decision(allowed)>>] = @ + 1,
              !.durationCount = @ + 1]

InitMetrics ==
    [total |-> [d \in {"allowed", "denied"} |-> 0],
     byKind |-> [k \in Kinds \X {"allowed", "denied"} |-> 0],
     byOperation |-> [o \in Operations \X {"allowed", "denied"} |-> 0],
     durationCount |-> 0,
     validatorErrors |-> [i \in 1..NumValidators |-> 0]]

InitAdmission ==
    /\ admPc = "idle"
    /\ admReq = NoRequest
    /\ admResults = <<>>
    /\ admResp = NoResponse
    /\ admEscaped = FALSE
    /\ metrics = InitMetrics
    /\ admCount = 0

\* handle_validate hands a request to validate_admission; the validators run
\* (asyncio.gather) and each ends with a result or an exception.
AdmissionGather ==
    /\ admPc = "idle"
    /\ admCount < MaxAdmissions
    /\ \E uid \in UIDs, kind \in Kinds, op \in Operations :
          admReq' = [uid |-> uid, kind |-> kind, operation |-> op]
    /\ \E r1 \in ValidatorOutcomes(1), r2 \in ValidatorOutcomes(2),
          r3 \in ValidatorOutcomes(3) :
          admResults' = <<r1, r2, r3>>
    /\ admPc' = "pending"
    /\ admResp' = NoResponse
    /\ admEscaped' = FALSE
    /\ admCount' = admCount + 1
    /\ UNCHANGED metrics

\* Variant: gather without return_exceptions.
GatherPropagates == FALSE

\* asyncio.gather(*validation_tasks, return_exceptions=True): an exception of a
\* validator is returned in its slot instead of being raised out of gather.
GatherReturnExceptions == TRUE

\* The try/except Exception around the body of validate_admission.
CatchesUnexpected == TRUE

\* TRUE when gather itself raises (only without return_exceptions).
GatherRaises(results) ==
    /\ ~GatherReturnExceptions
    /\ \E i \in 1..NumValidators : results[i].kind = "exception"

\* The rest of validate_admission: merge, build the response, record metrics;
\* on an unexpected exception, the fail-closed response of the except branch.
ValidateAdmission ==
    /\ admPc = "pending"
    /\ IF GatherRaises(admResults)
       THEN /\ UNCHANGED metrics
            /\ IF CatchesUnexpected
               THEN /\ admResp' = BuildResponse(RequestUid(admReq), FALSE,
                                                <<"Internal error: exception">>, <<>>)
                    /\ admEscaped' = FALSE
               ELSE /\ admResp' = NoResponse
                    /\ admEscaped' = TRUE
       ELSE LET merged == MergeResults(admResults, NumValidators)
            IN /\ admResp' = BuildResponse(RequestUid(admReq), merged.allowed,
                                           merged.messages, merged.warnings)
               /\ metrics' = RecordAdmissionDecision(metrics, merged.allowed,
                                                     admReq.kind, admReq.operation)
               /\ admEscaped' = FALSE
    /\ admPc' = "done"
    /\ UNCHANGED <<admReq, admResults, admCount>>

\* The response has been sent; the controller waits for the next request.
AdmissionReturn ==
    /\ admPc = "done"
    /\ admPc' = "idle"
    /\ admReq' = NoRequest
    /\ admResults' = <<>>
    /\ admResp' = NoResponse
    /\ UNCHANGED <<admEscaped, metrics, admCount>>

(***************************************************************************)
(* authorize (services/util.py)                                            *)
(***************************************************************************)

\* settings.miner_ss58 and settings.allowed_validators
MinerSS58 == "miner"
AllowedValidators == {"val1"}

Hotkeys == {"miner", "val1", "other"}

\* int(time.time()) at the moment _authorize runs.
AuthTimes == {1000}

\* `int(time.time()) - int(nonce) >= 30`
NonceWindow == 30

\* Offsets of the X-Nonce header from the current time, around the window.
NonceOffsets == {0 - 31, 0 - 30, 0 - 29, 0, 29, 30, 31}

\* Bounds on the number of requests of one run: of the window workload
\* (nonces around the 30-second window) and of the tamper workload (the same
\* headers sent again with other methods and bodies).
MaxWindowRequests == 1
MaxAuthRequests == 2

\* The request bodies (None: no body) and the HTTP methods of the model.
Bodies == {None, "b1", "b2"}
Methods == {"POST", "PUT", "GET", "DELETE"}

\* request.url.path of the endpoints behind authorize(allow_miner=True,
\* purpose="cache").
AuthPaths == {"/cache/overview", "/cache/c1"}

\* hashlib.sha256(body).hexdigest(): different bodies, different digests.
Sha256(body) == CASE body = "b1" -> "h1" [] body = "b2" -> "h2"

\* The same with the digest of the empty body where there is no body.
BodySha256OfEmptyBody(method, body) ==
    IF method \in {"POST", "PUT", "PATCH"}
    THEN IF body # None THEN Sha256(body) ELSE "h-empty"
    ELSE None

\* add_body_sha256: request.state.body_sha256, None without a body and for
\* every method other than POST, PUT and PATCH.
BodySha256(method, body) ==
    IF method \in {"POST", "PUT", "PATCH"} /\ body # None THEN Sha256(body) ELSE None

Purposes == {"cache"}

\* An X-Signature header: missing, not hex, or the hex of an SR25519
\* signature made by `signer` over the string hotkey:nonce:payload.
Signatures(now) ==
    {[kind |-> k, signer |-> None, hotkey |-> None, nonce |-> 0, payload |-> None] :
        k \in {"missing", "nothex"}}
    \cup
    [kind : {"hex"}, signer : {"miner", "other"}, hotkey : {"miner"},
     nonce : {now + o : o \in NonceOffsets}, payload : {"h1", "h2", "cache"}]

\* The X-Nonce header: missing, not a number, or a Unix timestamp.
Nonces(now) ==
    {[kind |-> k, val |-> 0] : k \in {"missing", "text"}}
    \cup [kind : {"num"}, val : {now + o : o \in NonceOffsets}]

\* allowed_signers of _authorize
AllowedSigners(allowMiner, allowValidator) ==
    (IF allowMiner THEN {MinerSS58} ELSE {}) \cup
    (IF allowValidator THEN AllowedValidators ELSE {})

\* The nonce test of _authorize.
NonceRejected(now, nonce) == now - nonce.val >= NonceWindow

\* Variant of the signing string that never uses the body hash.
SignatureStringPurposeOnly(hotkey, nonce, bodySha, purpose) ==
    <<hotkey, nonce.val, purpose>>

\* ":".join([hotkey, nonce, body_sha256 if body_sha256 else purpose])
SignatureString(hotkey, nonce, bodySha, purpose) ==
    <<hotkey, nonce.val, IF bodySha # None THEN bodySha ELSE purpose>>

\* get_keypair(hotkey).verify(signature_string, signature)
KeypairVerify(hotkey, sigString, sig) ==
    /\ sig.signer = hotkey
    /\ <<sig.hotkey, sig.nonce, sig.payload>> = sigString

\* authorize(...)._authorize: "ok" when it returns, "401" for the
\* HTTPException raised, "500" for an exception that is no HTTPException.
Authorize(in) ==
    IF \/ in.hotkey = None
       \/ in.nonce.kind = "missing"
       \/ in.signature.kind = "missing"
       \/ in.hotkey \notin AllowedSigners(in.allowMiner, in.allowValidator)
    THEN "401"
    ELSE IF in.nonce.kind = "text" THEN "500"
    ELSE IF NonceRejected(in.now, in.nonce) THEN "401"
    ELSE IF in.signature.kind = "nothex" THEN "500"
    ELSE IF ~KeypairVerify(in.hotkey,
                           SignatureString(in.hotkey, in.nonce, in.bodySha, in.purpose),
                           in.signature)
    THEN "401"
    ELSE "ok"

NoAuthIn == [now |-> 0, hotkey |-> None,
             nonce |-> [kind |-> "missing", val |-> 0],
             signature |-> [kind |-> "missing", signer |-> None, hotkey |-> None,
                            nonce |-> 0, payload |-> None],
             method |-> None, path |-> None, body |-> None,
             bodySha |-> None, purpose |-> None,
             allowMiner |-> FALSE, allowValidator |-> FALSE]

\* The requests of the window workload: POST requests with every header
\* combination and nonces around the window.
WindowRequests(now) ==
    [now : {now}, hotkey : Hotkeys \cup {None}, nonce : Nonces(now),
     signature : Signatures(now), method : {"POST"}, path : {"/cache/download"},
     body : Bodies,
     purpose : Purposes, allowMiner : BOOLEAN, allowValidator : BOOLEAN]

\* The requests of the tamper workload: a current nonce, signatures over
\* that nonce, every method and body, on an endpoint open to the miner.
TamperRequests(now) ==
    [now : {now}, hotkey : {"miner", "other"},
     nonce : {n \in Nonces(now) : n.kind = "num" /\ n.val = now},
     signature : {s \in Signatures(now) : s.kind = "hex" /\ s.nonce = now},
     method : Methods, path : AuthPaths, body : Bodies,
     purpose : Purposes, allowMiner : {TRUE}, allowValidator : {FALSE}]

AuthRequests(load, now) ==
    IF load = "window" THEN WindowRequests(now) ELSE TamperRequests(now)
AuthBudget(load) == IF load = "window" THEN MaxWindowRequests ELSE MaxAuthRequests

InitAuth ==
    /\ authPc = "idle"
    /\ authIn = NoAuthIn
    /\ authOut = None
    /\ authLog = {}
    /\ authCount = 0
    /\ authLoad \in {"window", "tamper"}

\* A protected endpoint receives a request and runs its authorize dependency.
AuthorizeRequest ==
    /\ authPc = "idle"
    /\ authCount < AuthBudget(authLoad)
    /\ authCount' = authCount + 1
    /\ \E now \in AuthTimes :
       \E req \in AuthRequests(authLoad, now) :
          /\ authIn' = [now |-> req.now, hotkey |-> req.hotkey, nonce |-> req.nonce,
                        signature |-> req.signature,
                        method |-> req.method, path |-> req.path,
                        body |-> req.body,
                        bodySha |-> BodySha256(req.method, req.body),
                        purpose |-> req.purpose,
                        allowMiner |-> req.allowMiner,
                        allowValidator |-> req.allowValidator]
          /\ authOut' = Authorize(authIn')
          /\ authLog' = IF authOut' = "ok" THEN authLog \cup {authIn'} ELSE authLog
    /\ authPc' = "done"
    /\ UNCHANGED authLoad

\* The response has been sent.
AuthorizeReturn ==
    /\ authPc = "done"
    /\ authPc' = "idle"
    /\ authIn' = NoAuthIn
    /\ authOut' = None
    /\ UNCHANGED <<authLog, authCount, authLoad>>

(***************************************************************************)
(* Namespace policies (config.py)                                          *)
(***************************************************************************)

\* AdmissionConfig.namespace_policies of the deployment under study: the
\* defaults for chutes, default and kube-system, a namespace in monitor mode
\* and an exempt one.
NamespacePolicies ==
    [n \in {"chutes", "default", "kube-system", "sandbox", "trusted"} |->
        CASE n = "kube-system" -> [mode |-> "warn", exempt |-> FALSE]
          [] n = "sandbox" -> [mode |-> "monitor", exempt |-> FALSE]
          [] n = "trusted" -> [mode |-> "enforce", exempt |-> TRUE]
          [] OTHER -> [mode |-> "enforce", exempt |-> FALSE]]

\* AdmissionConfig.get_namespace_policy
GetNamespacePolicy(namespace) ==
    IF namespace \in DOMAIN NamespacePolicies THEN NamespacePolicies[namespace]
    ELSE NamespacePolicies["default"]

\* AdmissionConfig.is_namespace_exempt
IsNamespaceExempt(namespace) == GetNamespacePolicy(namespace).exempt

(***************************************************************************)
(* Cosign signature validator (validators/cosign.py)                       *)
(***************************************************************************)

\* Bounds on the number of requests the validator handles in one run: of the
\* policy workload (every kind of image config) and of the cache workload
\* (few images, repeated requests).
MaxPolicyRequests == 1
MaxCosignRequests == 2

\* Bound on the number of clock advances in one run.
MaxTicks == 1

\* The images of the model, each named after the verification config that
\* CosignConfig.get_verification_config resolves for it.
Images == {"noconfig", "disabled", "nosig", "keyless", "keynopub",
           "wrongkey", "good1", "good2"}

\* Position of an image in the lexicographic order used by sorted(images).
ImageRank(img) ==
    CASE img = "disabled" -> 1 [] img = "good1" -> 2 [] img = "good2" -> 3
      [] img = "keyless" -> 4 [] img = "keynopub" -> 5 [] img = "noconfig" -> 6
      [] img = "nosig" -> 7 [] img = "wrongkey" -> 8

\* config.chutes_cosign_public_key_path
RequiredKeyPath == "chutes.pub"

\* The CosignVerificationConfig of an image (has = FALSE: no config found).
ImageConfig(img) ==
    CASE img = "noconfig" ->
           [has |-> FALSE, method |-> None, require |-> FALSE, publicKey |-> None]
      [] img = "disabled" ->
           [has |-> TRUE, method |-> "disabled", require |-> TRUE, publicKey |-> None]
      [] img = "nosig" ->
           [has |-> TRUE, method |-> "key", require |-> FALSE,
            publicKey |-> RequiredKeyPath]
      [] img = "keyless" ->
           [has |-> TRUE, method |-> "keyless", require |-> TRUE, publicKey |-> None]
      [] img = "keynopub" ->
           [has |-> TRUE, method |-> "key", require |-> TRUE, publicKey |-> None]
      [] img = "wrongkey" ->
           [has |-> TRUE, method |-> "key", require |-> TRUE, publicKey |-> "other.pub"]
      [] OTHER ->
           [has |-> TRUE, method |-> "key", require |-> TRUE,
            publicKey |-> RequiredKeyPath]

\* metadata.name and uid of the pod: never part of a cache key.
PodIdents == {"pod-a/u1", "pod-b/u2"}

\* The requests of the policy workload: every kind of image config, both
\* namespaces, resources and operations validate() lets through at once.
PolicyRequests ==
    {r \in [namespace : {"chutes", "default", "trusted"}, kind : {"Pod", "Service"},
            operation : {"CREATE", "DELETE"}, ident : {"pod-a/u1"},
            images : {<<>>} \cup {<<i>> : i \in Images} \cup
                     {<<"good1", "good1">>, <<"noconfig", "good1">>,
                      <<"good1", "wrongkey">>}] :
        r.kind = "Service" => r.operation = "CREATE"}

\* The requests of the cache workload: the same images under different pod
\* names, uids, operations and container orders.
CacheRequests ==
    {r \in [namespace : {"chutes"}, kind : {"Pod"},
            operation : {"CREATE", "UPDATE"}, ident : PodIdents,
            images : {<<"good1">>, <<"good1", "good2">>, <<"good2", "good1">>,
                      <<"noconfig", "good1">>}] :
        r.operation = "CREATE" <=> r.ident = "pod-a/u1"}

\* The requests of the overlap workload: the same image under two pod
\* names, handled by two validate() calls at a time.
OverlapRequests ==
    [namespace : {"chutes"}, kind : {"Pod"}, operation : {"CREATE"},
     ident : PodIdents, images : {<<"good1">>}]

MaxOverlapRequests == 2

\* The requests and the request budget of a workload.
Requests(w) ==
    CASE w = "policy" -> PolicyRequests
      [] w = "cache" -> CacheRequests
      [] w = "overlap" -> OverlapRequests
Budget(w) ==
    CASE w = "policy" -> MaxPolicyRequests
      [] w = "cache" -> MaxCosignRequests
      [] w = "overlap" -> MaxOverlapRequests

\* The kinds validate() checks; every other kind is allowed at once.
PodKinds == {"Pod", "Deployment", "StatefulSet", "DaemonSet", "Job", "CronJob",
             "ReplicaSet"}

\* TTLs and backoff, in seconds.
\* CosignConfig.cache_ttl
CacheTtl == 3600
\* CosignConfig.negative_cache_ttl
NegativeCacheTtl == 300
\* CosignConfig.rate_limit_backoff_seconds
RateLimitBackoffSeconds == 300
\* CosignConfig.admission_result_cache_ttl (20 minutes)
AdmissionResultCacheTtl == 1200

\* The amounts by which the clock of the model advances.
TimeJumps == {200, 400, 1200}
\* time.time() when the validator is constructed.
StartTimes == {1000}

\* sorted(images): insertion of x into a sorted sequence, then the sort.
RECURSIVE InsertSorted(_, _)
InsertSorted(x, seq) ==
    IF Len(seq) = 0 THEN <<x>>
    ELSE IF ImageRank(x) <= ImageRank(Head(seq)) THEN <<x>> \o seq
    ELSE <<Head(seq)>> \o InsertSorted(x, Tail(seq))

RECURSIVE SortedImages(_)
SortedImages(images) ==
    IF Len(images) = 0 THEN <<>>
    ELSE InsertSorted(Head(images), SortedImages(Tail(images)))

\* Variant of _admission_cache_key that keeps the container order.
AdmissionCacheKeyUnsorted(req) == <<req.namespace, req.kind, req.images>>

\* CosignValidator._admission_cache_key
AdmissionCacheKey(req) == <<req.namespace, req.kind, SortedImages(req.images)>>

\* TRUE at position i when images[i] did not occur before i (the `seen` set
\* every rule keeps).
FirstOccurrence(images, i) == \A j \in 1..(i - 1) : images[j] # images[i]

\* CosignValidator._require_cosign_config: an image without config.
NoConfig(vc) == ~vc.has

\* CosignValidator._reject_disabled: method disabled or no signature required.
IsDisabled(vc) == vc.has /\ (vc.method = "disabled" \/ ~vc.require)

\* CosignValidator._require_key_verification: not key-based, or no key.
NotKeyBased(vc) == vc.has /\ (vc.method # "key" \/ vc.publicKey = None)

\* Variant of _require_ctx_key that accepts every key.
AnyKeyAccepted(vc) == FALSE

\* CosignValidator._require_ctx_key: a key other than ctx.required_key_path.
DifferentKey(vc) == vc.has /\ vc.publicKey # None /\ vc.publicKey # RequiredKeyPath

\* The test a rule applies to the config of each distinct image.
RuleFlags(rule, vc) ==
    CASE rule = "require_cosign_config" -> NoConfig(vc)
      [] rule = "reject_disabled" -> IsDisabled(vc)
      [] rule = "require_key_verification" -> NotKeyBased(vc)
      [] rule = "require_ctx_key" -> DifferentKey(vc)

\* The text of the violation a rule reports for an image.
RuleText(rule) ==
    CASE rule = "require_cosign_config" -> "has no cosign configuration"
      [] rule = "reject_disabled" -> "has verification disabled"
      [] rule = "require_key_verification" -> "must use key-based verification"
      [] rule = "require_ctx_key" -> "uses a different cosign key"

\* The loop of a rule over ctx.images from index i: one violation for every
\* distinct image the rule flags, in image order.
RECURSIVE SyncRuleViolationsFrom(_, _, _)
SyncRuleViolationsFrom(rule, images, i) ==
    IF i > Len(images) THEN <<>>
    ELSE (IF FirstOccurrence(images, i) /\ RuleFlags(rule, ImageConfig(images[i]))
          THEN <<<<RuleText(rule), images[i]>>>> ELSE <<>>)
         \o SyncRuleViolationsFrom(rule, images, i + 1)

\* The violations of one of the rules that never suspend.
SyncRuleViolations(rule, images) == SyncRuleViolationsFrom(rule, images, 1)

\* The iteration orders list(set(rules)) may produce for the chutes rule set;
\* the order is a property of the process (the hashes of the bound methods).
ChutesRuleOrders ==
    {<<"require_cosign_config", "reject_disabled", "require_key_verification",
       "require_ctx_key", "verify_cosign_config">>,
     <<"verify_cosign_config", "require_cosign_config", "reject_disabled",
       "require_key_verification", "require_ctx_key">>,
     <<"require_ctx_key", "require_cosign_config", "verify_cosign_config",
       "require_key_verification", "reject_disabled">>}

\* CosignValidator._get_rules_for_context
RulesForContext(namespace, order) ==
    IF namespace = "chutes" THEN order ELSE <<"verify_cosign_config">>

\* Position of the verification rule in a rule list.
VerifyPos(rules) == CHOOSE i \in DOMAIN rules : rules[i] = "verify_cosign_config"

\* The violations of rules[from..to] (rules that never suspend), in order.
RECURSIVE SyncViolations(_, _, _, _)
SyncViolations(rules, from, to, images) ==
    IF from > to THEN <<>>
    ELSE SyncRuleViolations(rules[from], images)
         \o SyncViolations(rules, from + 1, to, images)

\* _verify_cosign_config skips images seen before, without config, disabled or
\* not requiring a signature: the first index >= i it verifies, else Len + 1.
RECURSIVE NextToVerify(_, _)
NextToVerify(images, i) ==
    IF i > Len(images) THEN i
    ELSE LET vc == ImageConfig(images[i])
         IN IF /\ FirstOccurrence(images, i)
               /\ vc.has
               /\ ~(vc.method = "disabled" \/ ~vc.require)
            THEN i
            ELSE NextToVerify(images, i + 1)

\* Variant of the backoff test that never holds.
NeverRateLimited(t, until) == FALSE

\* `self._rate_limit_until and time.time() < self._rate_limit_until`
RateLimited(t, until) == until # 0 /\ t < until

\* Variant of _record_rate_limit without the backoff.
RecordRateLimitNoBackoff(t) == t

\* CosignValidator._record_rate_limit
RecordRateLimit(t) == t + RateLimitBackoffSeconds

\* CosignValidator._make_cache_key: the resolved reference with the fields
\* of the verification config (a function of the image in this model).
MakeCacheKey(ref, img) == <<ref, ImageConfig(img).method, ImageConfig(img).publicKey>>

\* _resolve_image_reference: the digest reference docker inspect printed, or
\* the reference itself when resolution failed.
ResolvedRefs(img) ==
    IF img = "keyless" THEN {<<img, "digest">>, <<img, "tag">>}
    ELSE {<<img, "digest">>}

\* TTLCache membership: an entry lives while timer() < expires.
Live(cache, key, t) == \E e \in cache : e.key = key /\ t < e.exp
\* A cache write that keeps the entry a key already has.
StoreIfAbsent(cache, key, val, t, ttl) ==
    IF \E e \in cache : e.key = key THEN cache
    ELSE cache \cup {[key |-> key, val |-> val, exp |-> t + ttl]}

\* TTLCache.__setitem__: one entry per key, expiring ttl after the write.
Store(cache, key, val, t, ttl) ==
    {e \in cache : e.key # key} \cup {[key |-> key, val |-> val, exp |-> t + ttl]}
\* TTLCache.expire: the entries still alive at time t.
Expire(cache, t) == {e \in cache : t < e.exp}
Lookup(cache, key) == (CHOOSE e \in cache : e.key = key).val

\* What one run of the cosign subprocess can print and return.
CosignOutputs ==
    {o \in [success : BOOLEAN, rateLimited : BOOLEAN, infra : BOOLEAN,
            json : {"list", "empty", "invalid"}] :
        /\ ~o.success => o.json = "invalid"
        /\ o.success => ~o.infra}

\* Variant of the classification that takes a connection/infra failure for a
\* failed verification.
ClassifyCosignInfraAsInvalid(method, out) ==
    IF out.rateLimited THEN "ratelimit"
    ELSE IF ~out.success THEN "invalid"
    ELSE IF method = "key"
         THEN (IF out.json = "invalid" THEN "invalid" ELSE "valid")
         ELSE (IF out.json = "list" THEN "valid" ELSE "invalid")

\* Outcome of _verify_with_key / _verify_keyless for a cosign output:
\* "ratelimit", "unavailable", "valid" or "invalid".
ClassifyCosign(method, out) ==
    IF out.rateLimited THEN "ratelimit"
    ELSE IF ~out.success /\ out.infra THEN "unavailable"
    ELSE IF ~out.success THEN "invalid"
    ELSE IF method = "key"
         THEN (IF out.json = "invalid" THEN "invalid" ELSE "valid")
         ELSE (IF out.json = "list" THEN "valid" ELSE "invalid")

\* str(RateLimitError) raised before / after the cosign run
PausedViolation == <<"Cosign verification paused due to upstream rate limiting", "">>
RateLimitViolation == <<"Cosign verification rate limited by upstream registry", "">>
UnavailableMessage == <<"Cosign verification unavailable (network/infra)", "">>
SignatureViolation(img) == <<"has invalid or missing signature", img>>

\* ValidationResult.allow() / ValidationResult.deny("; ".join(violations))
ResultAllow == [allowed |-> TRUE, messages |-> <<>>]
ResultDeny(violations) ==
    [allowed |-> FALSE, messages |-> <<JoinSeq(violations, <<"; ", "">>)>>]
ResultFor(violations) ==
    IF violations # <<>> THEN ResultDeny(violations) ELSE ResultAllow

\* A validate() call: its position, its request and its local variables.
\*   viol: the `violations` list of validate(); lviol: the list of the
\*   running _verify_cosign_config; idx: the image it is verifying;
\*   ref: the resolved reference; calls: cosign runs of this call so far;
\*   callLimited: whether cosNow < rateLimitUntil held when the current
\*   _verify_image_signature call was made; infraFailure: whether the last
\*   cosign run failed with a connection/infra indicator and no rate limit;
\*   rateLimitHit: whether its output matched a rate-limit pattern.
NoCosignRequest == [namespace |-> None, kind |-> None, operation |-> None,
                    ident |-> None, images |-> <<>>]
IdleSlot == [pc |-> "idle", req |-> NoCosignRequest, viol |-> <<>>, lviol |-> <<>>,
             idx |-> 0, ref |-> <<>>, result |-> ResultAllow, outcome |-> None,
             calls |-> 0, callLimited |-> FALSE, infraFailure |-> FALSE,
             rateLimitHit |-> FALSE]

\* The validate() calls that can be in flight together: two in the overlap
\* workload, one in the others.
Slots == {1, 2}
ActiveSlots(w) == IF w = "overlap" THEN Slots ELSE {1}

InitCosign ==
    /\ cosNow \in StartTimes
    /\ cosTicks = 0
    /\ cosCount = 0
    /\ rateLimitUntil = 0
    /\ resultCache = {}
    /\ negativeCache = {}
    /\ admissionCache = {}
    /\ slots = [s \in Slots |-> IdleSlot]
    /\ ruleOrder \in ChutesRuleOrders
    /\ verifiedValid = {}
    /\ workload \in {"policy", "cache", "overlap"}

\* The same, with a result that is not cached after a RateLimitError.
FinishNotCachingRateLimit(s, rec, violations, outcome) ==
    /\ admissionCache' = IF outcome = "ratelimit" THEN admissionCache
                          ELSE Store(admissionCache, AdmissionCacheKey(rec.req),
                                     ResultFor(violations), cosNow,
                                     AdmissionResultCacheTtl)
    /\ slots' = [slots EXCEPT ![s] = [rec EXCEPT !.pc = "done",
                                                 !.viol = violations,
                                                 !.result = ResultFor(violations),
                                                 !.outcome = outcome]]

\* Steps 3 (end) and 4 of validate(): build the result from the violations,
\* store it in the admission-result cache and return it.
Finish(s, rec, violations, outcome) ==
    /\ admissionCache' = Store(admissionCache, AdmissionCacheKey(rec.req),
                               ResultFor(violations), cosNow, AdmissionResultCacheTtl)
    /\ slots' = [slots EXCEPT ![s] = [rec EXCEPT !.pc = "done",
                                                 !.viol = violations,
                                                 !.result = ResultFor(violations),
                                                 !.outcome = outcome]]

\* _verify_cosign_config from image index i on, up to its next suspension:
\* the call of _verify_image_signature for the next image to verify (with its
\* rate-limit test), or the end of the rule and of the rules after it.
VerifyFrom(s, rec, i) ==
    LET images == rec.req.images
        rules == RulesForContext(rec.req.namespace, ruleOrder)
        j == NextToVerify(images, i)
    IN IF j > Len(images)
       THEN Finish(s, rec,
                   rec.viol \o rec.lviol
                   \o SyncViolations(rules, VerifyPos(rules) + 1, Len(rules), images),
                   "computed")
       ELSE IF RateLimited(cosNow, rateLimitUntil)
       THEN Finish(s, [rec EXCEPT !.idx = j, !.callLimited = cosNow < rateLimitUntil],
                   Append(rec.viol, PausedViolation), "paused")
       ELSE /\ slots' = [slots EXCEPT ![s] =
                           [rec EXCEPT !.pc = "resolve", !.idx = j,
                                       !.callLimited = cosNow < rateLimitUntil]]
            /\ UNCHANGED admissionCache

\* validate() from its entry to its first suspension.
CosignValidate(s) ==
    /\ s \in ActiveSlots(workload)
    /\ slots[s].pc = "idle"
    /\ cosCount < Budget(workload)
    /\ cosCount' = cosCount + 1
    /\ \E req \in Requests(workload) :
          LET images == req.images
              key == AdmissionCacheKey(req)
              rules == RulesForContext(req.namespace, ruleOrder)
              rec == [IdleSlot EXCEPT !.req = req]
          IN IF req.kind \notin PodKinds \/ req.operation = "DELETE" \/ images = <<>>
             THEN /\ slots' = [slots EXCEPT ![s] =
                                 [rec EXCEPT !.pc = "done", !.result = ResultAllow,
                                             !.outcome = "skipped"]]
                  /\ UNCHANGED admissionCache
             ELSE IF Live(admissionCache, key, cosNow)
             THEN /\ slots' = [slots EXCEPT ![s] =
                                 [rec EXCEPT !.pc = "done",
                                             !.result = Lookup(admissionCache, key),
                                             !.outcome = "hit"]]
                  /\ UNCHANGED admissionCache
             ELSE VerifyFrom(s, [rec EXCEPT !.viol =
                                    SyncViolations(rules, 1, VerifyPos(rules) - 1,
                                                   images)], 1)
    /\ UNCHANGED <<cosNow, cosTicks, rateLimitUntil, resultCache, negativeCache,
                   ruleOrder, workload, verifiedValid>>

\* _verify_image_signature after _resolve_image_reference returned: the two
\* per-image caches, then the verification method up to the cosign run.
ResolveReturn(s) ==
    /\ slots[s].pc = "resolve"
    /\ LET rec == slots[s]
           img == rec.req.images[rec.idx]
           vc == ImageConfig(img)
       IN \E ref \in ResolvedRefs(img) :
             LET key == MakeCacheKey(ref, img)
                 failed == [rec EXCEPT !.ref = ref,
                                       !.lviol = Append(@, SignatureViolation(img))]
             IN IF Live(resultCache, key, cosNow)
                THEN /\ VerifyFrom(s, [rec EXCEPT !.ref = ref], rec.idx + 1)
                     /\ verifiedValid' = verifiedValid \cup {img}
                     /\ UNCHANGED negativeCache
                ELSE IF Live(negativeCache, key, cosNow)
                THEN /\ VerifyFrom(s, failed, rec.idx + 1)
                     /\ UNCHANGED <<negativeCache, verifiedValid>>
                ELSE IF vc.method = "key" /\ vc.publicKey = None
                THEN /\ negativeCache' = Store(negativeCache, key, FALSE, cosNow,
                                               NegativeCacheTtl)
                     /\ VerifyFrom(s, failed, rec.idx + 1)
                     /\ UNCHANGED verifiedValid
                ELSE /\ slots' = [slots EXCEPT ![s] =
                                    [rec EXCEPT !.pc = "cosign", !.ref = ref,
                                                !.calls = @ + 1]]
                     /\ UNCHANGED <<negativeCache, admissionCache, verifiedValid>>
    /\ UNCHANGED <<cosNow, cosTicks, cosCount, rateLimitUntil, resultCache,
                   ruleOrder, workload>>

\* _verify_with_key / _verify_keyless after _run_cosign returned, then the
\* rest of _verify_image_signature and of the rule loop up to the next
\* suspension.
CosignReturn(s) ==
    /\ slots[s].pc = "cosign"
    /\ \E out \in CosignOutputs :
          LET rec == [slots[s] EXCEPT !.infraFailure =
                                         ~out.success /\ out.infra /\ ~out.rateLimited,
                                       !.rateLimitHit = out.rateLimited]
              img == rec.req.images[rec.idx]
              key == MakeCacheKey(rec.ref, img)
              class == ClassifyCosign(ImageConfig(img).method, out)
          IN CASE class = "ratelimit" ->
                    /\ rateLimitUntil' = RecordRateLimit(cosNow)
                    /\ Finish(s, rec, Append(rec.viol, RateLimitViolation), "ratelimit")
                    /\ UNCHANGED <<resultCache, negativeCache, verifiedValid>>
               [] class = "unavailable" ->
                    /\ slots' = [slots EXCEPT ![s] =
                                   [rec EXCEPT !.pc = "done",
                                               !.result = ResultDeny(<<UnavailableMessage>>),
                                               !.outcome = "unavailable"]]
                    /\ UNCHANGED <<rateLimitUntil, resultCache, negativeCache,
                                   admissionCache, verifiedValid>>
               [] class = "valid" ->
                    /\ resultCache' = Store(resultCache, key, TRUE, cosNow, CacheTtl)
                    /\ VerifyFrom(s, rec, rec.idx + 1)
                    /\ verifiedValid' = verifiedValid \cup {img}
                    /\ UNCHANGED <<rateLimitUntil, negativeCache>>
               [] class = "invalid" ->
                    /\ negativeCache' = Store(negativeCache, key, FALSE, cosNow,
                                              NegativeCacheTtl)
                    /\ VerifyFrom(s, [rec EXCEPT !.lviol =
                                          Append(@, SignatureViolation(img))],
                                  rec.idx + 1)
                    /\ UNCHANGED <<rateLimitUntil, resultCache, verifiedValid>>
    /\ UNCHANGED <<cosNow, cosTicks, cosCount, ruleOrder, workload>>

\* The result of validate() has been handed to the controller.
CosignDone(s) ==
    /\ slots[s].pc = "done"
    /\ slots' = [slots EXCEPT ![s] = IdleSlot]
    /\ UNCHANGED <<cosNow, cosTicks, cosCount, rateLimitUntil, resultCache,
                   negativeCache, admissionCache, ruleOrder, workload,
                   verifiedValid>>

\* Time passes; entries whose time-to-live is over leave the three caches.
CosignTick ==
    /\ cosTicks < MaxTicks
    /\ cosTicks' = cosTicks + 1
    /\ \E d \in TimeJumps : cosNow' = cosNow + d
    /\ resultCache' = Expire(resultCache, cosNow')
    /\ negativeCache' = Expire(negativeCache, cosNow')
    /\ admissionCache' = Expire(admissionCache, cosNow')
    /\ UNCHANGED <<cosCount, rateLimitUntil, slots, ruleOrder, workload,
                   verifiedValid>>

\* What _verify_image_signature does for each image of a request, when no
\* cache holds the image and no backoff is running: it returns True
\* ("valid") or False ("invalid"), or raises RateLimitError ("ratelimit")
\* or CosignVerificationUnavailableError ("unavailable").
VerifierBehaviours(images) ==
    [{images[i] : i \in DOMAIN images} ->
        {"valid", "invalid", "ratelimit", "unavailable"}]

\* _verify_cosign_config from image index i on, under a verifier behaviour:
\* how the rule ends ("ok" when it returns, else the exception it raises)
\* and the violations it returns.
RECURSIVE VerifyRuleWith(_, _, _)
VerifyRuleWith(images, verdict, i) ==
    LET j == NextToVerify(images, i)
    IN IF j > Len(images) THEN [end |-> "ok", viol |-> <<>>]
       ELSE IF verdict[images[j]] \in {"ratelimit", "unavailable"}
       THEN [end |-> verdict[images[j]], viol |-> <<>>]
       ELSE LET rest == VerifyRuleWith(images, verdict, j + 1)
            IN IF rest.end # "ok" THEN rest
               ELSE [end |-> "ok",
                     viol |-> (IF verdict[images[j]] = "invalid"
                               THEN <<SignatureViolation(images[j])>> ELSE <<>>)
                              \o rest.viol]

\* The rule loop of validate() from rule k on: an unavailable verifier
\* returns its denial at once, a rate limit appends its message and breaks,
\* every other rule extends the violations.
RECURSIVE RunRulesFrom(_, _, _, _)
RunRulesFrom(rules, k, images, verdict) ==
    IF k > Len(rules) THEN [end |-> "ok", viol |-> <<>>]
    ELSE LET mine == IF rules[k] = "verify_cosign_config"
                     THEN VerifyRuleWith(images, verdict, 1)
                     ELSE [end |-> "ok",
                           viol |-> SyncRuleViolations(rules[k], images)]
         IN CASE mine.end = "unavailable" ->
                   [end |-> "unavailable", viol |-> <<UnavailableMessage>>]
              [] mine.end = "ratelimit" ->
                   [end |-> "ratelimit", viol |-> <<RateLimitViolation>>]
              [] OTHER ->
                   LET rest == RunRulesFrom(rules, k + 1, images, verdict)
                   IN IF rest.end = "unavailable" THEN rest
                      ELSE [end |-> rest.end, viol |-> mine.viol \o rest.viol]

\* Steps 2 to 4 of validate() for a request it does not let through at
\* once, with the rule set iterated in `order`: the violations.
ViolationsWith(req, order, verdict) ==
    RunRulesFrom(RulesForContext(req.namespace, order), 1, req.images, verdict).viol

(***************************************************************************)
(* Registry and policy validators (validators/registry.py, opa.py)         *)
(***************************************************************************)

\* A string is a sequence of tokens; None and "" are the empty sequence.
\* ValidationResult.allow(message=None, warning=None)
Allow(message, warning) ==
    [allowed |-> TRUE,
     messages |-> IF message # <<>> THEN <<message>> ELSE <<>>,
     warnings |-> IF warning # <<>> THEN <<warning>> ELSE <<>>]

\* ValidationResult.deny(message)
Deny(message) == [allowed |-> FALSE, messages |-> <<message>>, warnings |-> <<>>]

\* f"Namespace {namespace} is exempt"
ExemptMessage(namespace) == <<"Namespace ", namespace, " is exempt">>

\* ns_policy.mode if ns_policy else self.config.enforcement_mode
EnforcementMode(namespace) == GetNamespacePolicy(namespace).mode

\* The kinds RegistryValidator.validate checks.
RegistryKinds == {"Pod", "Deployment", "StatefulSet", "DaemonSet", "Job", "CronJob",
                  "ReplicaSet"}

\* AdmissionConfig.allowed_registries: the default list and one wildcard.
AllowedRegistries == <<"docker.io", "gcr.io", "quay.io", "localhost:30500", "internal.*">>

\* An image reference is the sequence image.split("/").
RegistryImages ==
    {<<"nginx">>, <<"library", "nginx">>, <<"gcr.io", "proj", "app">>,
     <<"GCR.IO", "app">>, <<"evil.com", "app">>, <<"localhost", "app">>,
     <<"internal.corp", "app">>, <<"INTERNAL.corp", "app">>}

\* `"." in first_part or ":" in first_part`
HasDotOrColon(part) == part \notin {"nginx", "library", "localhost"}

\* str.lower()
Lower(str) ==
    CASE str = "GCR.IO" -> "gcr.io"
      [] str = "INTERNAL.corp" -> "internal.corp"
      [] OTHER -> str

\* allowed.endswith("*") and allowed[:-1]
EndsWithStar(allowed) == allowed = "internal.*"
StripStar(allowed) == IF allowed = "internal.*" THEN "internal." ELSE allowed

\* registry.startswith(prefix), for the prefixes of the allow list.
StartsWith(registry, prefix) == prefix = "internal." /\ registry = "internal.corp"

\* RegistryValidator._extract_registry
ExtractRegistry(image) ==
    IF Len(image) = 1 THEN "docker.io"
    ELSE IF HasDotOrColon(image[1]) \/ image[1] = "localhost" THEN image[1]
    ELSE "docker.io"

\* RegistryValidator._is_registry_allowed
IsRegistryAllowed(registry) ==
    \E i \in DOMAIN AllowedRegistries :
        LET allowed == AllowedRegistries[i]
        IN IF EndsWithStar(allowed) THEN StartsWith(registry, StripStar(allowed))
           ELSE Lower(allowed) = Lower(registry)

\* f"Image {image} uses disallowed registry {registry}"
RegistryViolation(image) ==
    <<"Image ">> \o JoinSeq(image, "/")
    \o <<" uses disallowed registry ", ExtractRegistry(image)>>

\* The violations loop of RegistryValidator.validate from image i on.
RECURSIVE RegistryViolationsFrom(_, _)
RegistryViolationsFrom(images, i) ==
    IF i > Len(images) THEN <<>>
    ELSE (IF ~IsRegistryAllowed(ExtractRegistry(images[i]))
          THEN <<RegistryViolation(images[i])>> ELSE <<>>)
         \o RegistryViolationsFrom(images, i + 1)

RegistryViolations(images) == RegistryViolationsFrom(images, 1)

\* "; ".join(violations), the violations being strings themselves.
RECURSIVE JoinViolations(_)
JoinViolations(violations) ==
    IF Len(violations) = 0 THEN <<>>
    ELSE IF Len(violations) = 1 THEN violations[1]
    ELSE violations[1] \o <<"; ">> \o JoinViolations(Tail(violations))

\* Variant of the mode branches of RegistryValidator.validate in which
\* warn mode denies.
RegistryByModeWarnDenies(mode, violations) ==
    IF mode = "monitor"
    THEN Allow(<<>>, <<"Registry violations (monitor mode): ">>
                     \o JoinViolations(violations))
    ELSE Deny(JoinViolations(violations))

\* The mode branches of RegistryValidator.validate for violations found.
RegistryByMode(mode, violations) ==
    IF mode = "monitor"
    THEN Allow(<<>>, <<"Registry violations (monitor mode): ">>
                     \o JoinViolations(violations))
    ELSE IF mode = "warn"
    THEN Allow(<<>>, <<"Registry violations: ">> \o JoinViolations(violations))
    ELSE Deny(JoinViolations(violations))

\* RegistryValidator.validate
RegistryResult(req) ==
    IF req.kind \notin RegistryKinds THEN Allow(<<>>, <<>>)
    ELSE IF IsNamespaceExempt(req.namespace)
    THEN Allow(ExemptMessage(req.namespace), <<>>)
    ELSE IF req.operation = "DELETE" THEN Allow(<<>>, <<>>)
    ELSE IF req.images = <<>> THEN Allow(<<>>, <<>>)
    ELSE LET violations == RegistryViolations(req.images)
         IN IF violations # <<>>
            THEN RegistryByMode(EnforcementMode(req.namespace), violations)
            ELSE Allow(<<>>, <<>>)

\* The items a policy engine may put in the `result` of its answer: an
\* object with a msg, a string, an object without msg, a number.
OpaItems ==
    {[type |-> "dict_msg", msg |-> <<"m1">>], [type |-> "str", msg |-> <<"m2">>],
     [type |-> "dict", msg |-> <<>>], [type |-> "number", msg |-> <<>>]}

\* Longest `result` list of the model.
MaxOpaItems == 2

\* The `result` values of a 200 answer: the key missing, or a list of items.
OpaResults ==
    {[has |-> FALSE, items |-> <<>>]} \cup
    {[has |-> TRUE, items |-> l] :
        l \in UNION {[1..n -> OpaItems] : n \in 0..MaxOpaItems}}

\* What the POST to the policy engine ends with: asyncio.TimeoutError,
\* another exception (connection refused, a body that is no JSON), a
\* status other than 200, or a 200 answer.
OpaReplies ==
    {[kind |-> k, result |-> [has |-> FALSE, items |-> <<>>]] :
        k \in {"timeout", "raise", "status_500"}}
    \cup [kind : {"ok"}, result : OpaResults]

\* The extraction loop of _query_opa over result["result"] from item i on.
RECURSIVE OpaViolationsFrom(_, _)
OpaViolationsFrom(items, i) ==
    IF i > Len(items) THEN <<>>
    ELSE (IF items[i].type \in {"dict_msg", "str"} THEN <<items[i].msg>> ELSE <<>>)
         \o OpaViolationsFrom(items, i + 1)

\* OPAValidator._query_opa: the exception it raises ("none" when it
\* returns) and the violations it returns.
QueryOpa(reply) ==
    CASE reply.kind = "timeout" -> [raised |-> "TimeoutError", violations |-> <<>>]
      [] reply.kind = "raise" -> [raised |-> "Exception", violations |-> <<>>]
      [] reply.kind = "status_500" -> [raised |-> "Exception", violations |-> <<>>]
      [] OTHER -> [raised |-> None,
                   violations |-> IF reply.result.has /\ reply.result.items # <<>>
                                  THEN OpaViolationsFrom(reply.result.items, 1)
                                  ELSE <<>>]

\* str(e) of the exception _query_opa raised.
OpaErrorText(reply) ==
    IF reply.kind = "status_500" THEN "OPA returned status 500" ELSE "error"

\* The mode branches of OPAValidator.validate for violations found.
OpaByMode(mode, violations) ==
    IF mode = "monitor"
    THEN Allow(<<>>, <<"Policy violations detected (monitor mode): ">>
                     \o JoinViolations(violations))
    ELSE IF mode = "warn"
    THEN Allow(<<>>, <<"Policy violations detected: ">> \o JoinViolations(violations))
    ELSE Deny(<<"Policy violations: ">> \o JoinViolations(violations))

\* Variant of the except branches of OPAValidator.validate that treats a
\* failed query as a violation, handled by enforcement mode.
OpaFailedByMode(mode, reply) ==
    OpaByMode(mode, <<<<"Policy validation error: ", OpaErrorText(reply)>>>>)

\* The except branches of OPAValidator.validate.
OpaFailed(mode, reply) ==
    IF QueryOpa(reply).raised = "TimeoutError"
    THEN Deny(<<"Policy validation timeout">>)
    ELSE Deny(<<"Policy validation error: ", OpaErrorText(reply)>>)

\* OPAValidator.validate
OpaResult(req, reply) ==
    IF IsNamespaceExempt(req.namespace)
    THEN Allow(ExemptMessage(req.namespace), <<>>)
    ELSE LET mode == EnforcementMode(req.namespace)
             answer == QueryOpa(reply)
         IN IF answer.raised # None THEN OpaFailed(mode, reply)
            ELSE IF answer.violations = <<>> THEN Allow(<<>>, <<>>)
            ELSE OpaByMode(mode, answer.violations)

\* The namespaces of the validator requests: the configured ones and one
\* without a policy of its own.
ValidatorNamespaces == DOMAIN NamespacePolicies \cup {"other"}

ValidatorRequests ==
    [namespace : ValidatorNamespaces, kind : {"Pod", "Service"},
     operation : {"CREATE", "DELETE"},
     images : {<<>>} \cup {<<i>> : i \in RegistryImages}
              \cup {<<<<"evil.com", "app">>, <<"GCR.IO", "app">>>>,
                    <<<<"evil.com", "app">>, <<"INTERNAL.corp", "app">>>>}]

NoValidatorRequest == [namespace |-> None, kind |-> None, operation |-> None,
                       images |-> <<>>]
NoOpaReply == [kind |-> None, result |-> [has |-> FALSE, items |-> <<>>]]

InitValidators ==
    /\ valPc = "idle"
    /\ valWho = None
    /\ valReq = NoValidatorRequest
    /\ valReply = NoOpaReply
    /\ valOut = Allow(<<>>, <<>>)

\* RegistryValidator.validate is called and returns.
RegistryValidate ==
    /\ valPc = "idle"
    /\ \E req \in ValidatorRequests :
          /\ valReq' = req
          /\ valOut' = RegistryResult(req)
    /\ valWho' = "registry"
    /\ valReply' = NoOpaReply
    /\ valPc' = "done"

\* OPAValidator.validate is called, queries the policy engine and returns.
OpaValidate ==
    /\ valPc = "idle"
    /\ \E req \in ValidatorRequests, reply \in OpaReplies :
          /\ req.kind = "Pod" /\ req.operation = "CREATE"
          /\ Len(req.images) = 1
          /\ valReq' = req
          /\ valReply' = reply
          /\ valOut' = OpaResult(req, reply)
    /\ valWho' = "opa"
    /\ valPc' = "done"

\* The result has been handed to the controller.
ValidatorReturn ==
    /\ valPc = "done"
    /\ valPc' = "idle"
    /\ valWho' = None
    /\ valReq' = NoValidatorRequest
    /\ valReply' = NoOpaReply
    /\ valOut' = Allow(<<>>, <<>>)

(***************************************************************************)
(* Model cache: verification of a cache directory (cache/util.py)          *)
(***************************************************************************)

\* What a cache directory holds, compared with the upstream manifest of the
\* revision: nothing, some of the files, every file with the right size and
\* hash, every file with a wrong size or hash somewhere, or the snapshot of
\* another revision (no snapshots/<revision> directory).
DiskContents == {"none", "partial", "matching", "mismatch", "other_revision"}

\* The directory of a chute with an empty hub directory in it, as
\* run_download creates it before it downloads.
EmptyHub == "empty"

\* How the request for the manifest (GET /misc/hf_repo_info) ends.
ManifestFetches == {"ok", "non200", "client_error"}

\* is_chute_present / HuggingFaceSnapshot.is_present_on_disk
IsPresent(content) == content \notin {"none", "removed", EmptyHub}

\* chute_cache_dir(chute_id).exists()
PathExists(content) == content \notin {"none", "removed"}

\* verify_cache: "matched" and "skipped_api_error" are returned dicts, the
\* other outcomes are the ValueError raised.
VerifyCache(fetch, content) ==
    IF fetch # "ok" THEN "skipped_api_error"
    ELSE CASE content \in {"none", "removed", "other_revision", EmptyHub}
                -> "Cache directory not found"
           [] content = "partial" -> "Missing file"
           [] content = "mismatch" -> "Size mismatch"
           [] content = "matching" -> "matched"

\* TRUE when verify_cache returns instead of raising.
VerifyReturns(outcome) == outcome \in {"matched", "skipped_api_error"}

\* What snapshot_download leaves on disk when it returns.
DownloadedContents == {"matching", "mismatch"}

(***************************************************************************)
(* Model cache: POST /cache/download and run_download (cache/router.py,    *)
(* cache/util.py, cache/models.py)                                         *)
(***************************************************************************)

\* Bound on the number of download requests of one run.
MaxDownloadRequests == 2

\* The chute ids of the requests; "short" is not 36 characters long.
DownloadChutes == {"c1", "c2"}
RequestChuteIds == DownloadChutes \cup {"short"}
Handlers == {1, 2}

\* _IN_PROGRESS_STATUSES
InProgressStatuses == {"started", "downloading", "verifying"}

\* ChuteDownloadState.is_in_progress of download_state.get(chute_id)
IsInProgress(status) == status \in InProgressStatuses

\* wasPresent, info and launched are history: whether the chute was on disk
\* and not in progress when the request arrived, how fetch_hf_info ended,
\* and how many tasks the handler created.
\* op is the endpoint ("download", "delete", "cleanup"), removed the
\* removed_chutes of a cleanup.
IdleHandler == [pc |-> "idle", op |-> None, chute |-> None, force |-> FALSE,
                status |-> None, wasPresent |-> FALSE, info |-> None,
                launched |-> 0, removed |-> {}]

\* download() answering PRESENT whatever force says.
SkipsDownloadUnforced(present, force) == present

\* download(): elif is_chute_present(chute_id) and not force
SkipsDownload(present, force) == present /\ ~force

InitDownload ==
    /\ dlState = [c \in DownloadChutes |-> None]
    /\ dlDisk \in [DownloadChutes -> {"none", "matching"}]
    /\ dlHandlers = [h \in Handlers |-> IdleHandler]
    /\ dlTasks = <<>>
    /\ dlCount = 0

\* DownloadStateManager.set_failed: only an existing entry changes.
SetFailed(state, chute) ==
    IF state[chute] # None THEN [state EXCEPT ![chute] = "failed"] ELSE state

\* DownloadStateManager.set_completed keeping the entry as "completed".
SetCompletedKeeps(state, chute) ==
    IF state[chute] # None THEN [state EXCEPT ![chute] = "completed"] ELSE state

\* DownloadStateManager.set_completed: the entry is popped.
SetCompleted(state, chute) == [state EXCEPT ![chute] = None]

\* DownloadStateManager.contains
StateContains(state, chute) == state[chute] # None

\* What the except branch of run_download leaves of the chute's directory:
\* nothing, or the directory as it is when shutil.rmtree raises OSError.
RmtreeLeaves(content) == {"none", content}

\* TRUE when run_download has returned.
TaskEnded(task) == task.pc \in {"completed", "failed"}

\* DownloadStateManager.set_verifying
SetVerifying(state, chute) ==
    IF state[chute] # None THEN [state EXCEPT ![chute] = "verifying"] ELSE state

\* download(): from the entry of the handler to the await of fetch_hf_info,
\* or to its response.
DownloadRequest(h) ==
    /\ dlHandlers[h].pc = "idle"
    /\ dlCount < MaxDownloadRequests
    /\ dlCount' = dlCount + 1
    /\ \E chute \in RequestChuteIds, force \in BOOLEAN :
          LET rec == [IdleHandler EXCEPT !.op = "download", !.chute = chute,
                         !.force = force,
                         !.wasPresent = /\ chute \in DownloadChutes
                                        /\ IsPresent(dlDisk[chute])
                                        /\ ~IsInProgress(dlState[chute])]
          IN dlHandlers' = [dlHandlers EXCEPT ![h] =
                IF chute \notin DownloadChutes
                THEN [rec EXCEPT !.pc = "done", !.status = "400"]
                ELSE IF IsInProgress(dlState[chute])
                THEN [rec EXCEPT !.pc = "done", !.status = "in_progress"]
                ELSE IF SkipsDownload(IsPresent(dlDisk[chute]), force)
                THEN [rec EXCEPT !.pc = "done", !.status = "present"]
                ELSE [rec EXCEPT !.pc = "fetch"]]
    /\ UNCHANGED <<dlState, dlDisk, dlTasks>>

\* download(): fetch_hf_info has returned or raised; on success the handler
\* creates the run_download task and answers STARTED.
FetchInfoReturn(h) ==
    /\ dlHandlers[h].pc = "fetch"
    /\ \E info \in {"ok", "http_error", "no_repo_id"} :
          IF info = "ok"
          THEN /\ dlTasks' = Append(dlTasks, [chute |-> dlHandlers[h].chute,
                                               pc |-> "created"])
               /\ dlHandlers' = [dlHandlers EXCEPT ![h].pc = "done",
                                                   ![h].status = "started",
                                                   ![h].info = info,
                                                   ![h].launched = 1]
          ELSE /\ dlHandlers' = [dlHandlers EXCEPT ![h].pc = "done",
                                    ![h].info = info,
                                    ![h].status = IF info = "no_repo_id" THEN "502"
                                                  ELSE "error"]
               /\ UNCHANGED dlTasks
    /\ UNCHANGED <<dlState, dlDisk, dlCount>>

\* The response of the handler has been sent.
DownloadRespond(h) ==
    /\ dlHandlers[h].pc = "done"
    /\ dlHandlers' = [dlHandlers EXCEPT ![h] = IdleHandler]
    /\ UNCHANGED <<dlState, dlDisk, dlTasks, dlCount>>

\* delete_chute: no await suspends it (the lock of download_state is free
\* whenever a coroutine runs).
DeleteChute(h) ==
    /\ dlHandlers[h].pc = "idle"
    /\ dlCount < MaxDownloadRequests
    /\ dlCount' = dlCount + 1
    /\ \E chute \in RequestChuteIds :
          LET rec == [IdleHandler EXCEPT !.op = "delete", !.chute = chute] IN
          IF chute \notin DownloadChutes
          THEN /\ dlHandlers' = [dlHandlers EXCEPT ![h] =
                                    [rec EXCEPT !.pc = "done", !.status = "400"]]
               /\ UNCHANGED dlDisk
          ELSE IF ~PathExists(dlDisk[chute])
          THEN /\ dlHandlers' = [dlHandlers EXCEPT ![h] =
                                    [rec EXCEPT !.pc = "done", !.status = "not found"]]
               /\ UNCHANGED dlDisk
          ELSE IF StateContains(dlState, chute)
          THEN /\ dlHandlers' = [dlHandlers EXCEPT ![h] =
                                    [rec EXCEPT !.pc = "done", !.status = "409"]]
               /\ UNCHANGED dlDisk
          ELSE /\ dlHandlers' = [dlHandlers EXCEPT ![h] =
                                    [rec EXCEPT !.pc = "done", !.status = "deleted"]]
               /\ dlDisk' = [dlDisk EXCEPT ![chute] = "none"]
    /\ UNCHANGED <<dlState, dlTasks>>

\* cleanup / run_cleanup: `due` are the chutes the age and size rules pick;
\* a candidate has a models--* directory under hub.
RunCleanup(h) ==
    /\ dlHandlers[h].pc = "idle"
    /\ dlCount < MaxDownloadRequests
    /\ dlCount' = dlCount + 1
    /\ \E due \in SUBSET DownloadChutes :
          LET removed == {c \in due : IsPresent(dlDisk[c]) /\ ~StateContains(dlState, c)}
          IN /\ dlDisk' = [c \in DownloadChutes |->
                              IF c \in removed THEN "none" ELSE dlDisk[c]]
             /\ dlHandlers' = [dlHandlers EXCEPT ![h] =
                                  [IdleHandler EXCEPT !.op = "cleanup", !.pc = "done",
                                                      !.status = "completed",
                                                      !.removed = removed]]
    /\ UNCHANGED <<dlState, dlTasks>>

\* run_download from its first line to the await of snapshot_download: the
\* first point at which the download is registered in download_state.
RunDownloadStart(t) ==
    /\ t \in DOMAIN dlTasks
    /\ dlTasks[t].pc = "created"
    /\ dlState' = [dlState EXCEPT ![dlTasks[t].chute] = "downloading"]
    /\ dlDisk' = [dlDisk EXCEPT ![dlTasks[t].chute] =
                     IF PathExists(@) THEN @ ELSE EmptyHub]
    /\ dlTasks' = [dlTasks EXCEPT ![t].pc = "downloading"]
    /\ UNCHANGED <<dlHandlers, dlCount>>

\* run_download: snapshot_download has returned or raised.
RunDownloadFetched(t) ==
    /\ t \in DOMAIN dlTasks
    /\ dlTasks[t].pc = "downloading"
    /\ LET chute == dlTasks[t].chute
       IN \/ \E content \in DownloadedContents :
               /\ dlDisk' = [dlDisk EXCEPT ![chute] = content]
               /\ dlState' = SetVerifying(dlState, chute)
               /\ dlTasks' = [dlTasks EXCEPT ![t].pc = "verifying"]
          \/ \E left \in RmtreeLeaves(dlDisk[chute]) :
               /\ dlDisk' = [dlDisk EXCEPT ![chute] = left]
               /\ dlState' = SetFailed(dlState, chute)
               /\ dlTasks' = [dlTasks EXCEPT ![t].pc = "failed"]
    /\ UNCHANGED <<dlHandlers, dlCount>>

\* run_download: verify_cache has returned or raised.
RunDownloadVerified(t) ==
    /\ t \in DOMAIN dlTasks
    /\ dlTasks[t].pc = "verifying"
    /\ LET chute == dlTasks[t].chute
       IN \E fetch \in ManifestFetches :
             IF VerifyReturns(VerifyCache(fetch, dlDisk[chute]))
             THEN /\ dlState' = SetCompleted(dlState, chute)
                  /\ dlTasks' = [dlTasks EXCEPT ![t].pc = "completed"]
                  /\ UNCHANGED dlDisk
             ELSE \E left \in RmtreeLeaves(dlDisk[chute]) :
                     /\ dlState' = SetFailed(dlState, chute)
                     /\ dlDisk' = [dlDisk EXCEPT ![chute] = left]
                     /\ dlTasks' = [dlTasks EXCEPT ![t].pc = "failed"]
    /\ UNCHANGED <<dlHandlers, dlCount>>

(***************************************************************************)
(* Model cache: one HuggingFaceSnapshot (cache/manager.py)                 *)
(***************************************************************************)

\* Bound on the number of start_download and reconcile calls of one run.
MaxSnapshotOps == 3

\* task: "none" (_task is None), "running", "ok" or "failed" (done);
\* taskPc: what the running _run_download awaits; startPc / recPc: where a
\* start_download / reconcile call is suspended; recOutcome: history, how
\* the last reconcile ended.
InitSnapshot ==
    /\ snap = [task |-> "none", taskPc |-> "idle", startPc |-> "idle",
               recPc |-> "idle", reconciled |-> FALSE, recOutcome |-> None]
    /\ snapDisk \in DiskContents
    /\ completeMarker \in {m \in BOOLEAN : m => IsPresent(snapDisk)}
    /\ staleMarker = FALSE
    /\ completeBasis = {}
    /\ snapOps = 0
    /\ wroteOverMarker = FALSE

\* HuggingFaceSnapshot.is_in_progress
SnapInProgress == snap.task = "running"

\* Variant of status that reads the markers before the task.
SnapStatusMarkersFirst ==
    IF completeMarker THEN "PRESENT"
    ELSE IF staleMarker THEN "STALE"
    ELSE IF snap.task = "running" THEN "IN_PROGRESS"
    ELSE IF snap.task = "failed" THEN "FAILED"
    ELSE IF IsPresent(snapDisk) THEN "INCOMPLETE"
    ELSE "MISSING"

\* HuggingFaceSnapshot.status
SnapStatus ==
    IF snap.task = "running" THEN "IN_PROGRESS"
    ELSE IF snap.task = "failed" THEN "FAILED"
    ELSE IF completeMarker THEN "PRESENT"
    ELSE IF staleMarker THEN "STALE"
    ELSE IF IsPresent(snapDisk) THEN "INCOMPLETE"
    ELSE "MISSING"

\* _run_download keeping the directory after an exception.
AfterFailureKept(content) == content

\* _run_download: what the except branch leaves of the directory (rmtree).
AfterFailure(content) == "removed"

\* HuggingFaceSnapshot.needs_reconciliation
NeedsReconciliation ==
    ~snap.reconciled /\ snap.task = "none" /\ IsPresent(snapDisk)

\* The download endpoint calls start_download on an entry that is not in
\* progress; the call runs up to its await of fetch_repo_total_size.
StartDownload ==
    /\ snap.startPc = "idle"
    /\ ~SnapInProgress
    /\ snapOps < MaxSnapshotOps
    /\ snapOps' = snapOps + 1
    /\ snap' = [snap EXCEPT !.startPc = "sizing"]
    /\ snapDisk' = IF snapDisk = "removed" THEN "none" ELSE snapDisk
    /\ UNCHANGED <<completeMarker, staleMarker, completeBasis, wroteOverMarker>>

\* start_download after fetch_repo_total_size: the task is created.
StartDownloadTask ==
    /\ snap.startPc = "sizing"
    /\ snap' = [snap EXCEPT !.startPc = "idle", !.task = "running",
                            !.taskPc = "download"]
    /\ UNCHANGED <<snapDisk, completeMarker, staleMarker, completeBasis, snapOps, wroteOverMarker>>

\* _run_download: snapshot_download has returned, or raised (the directory
\* is removed and the task fails).
RunSnapshotDownload ==
    /\ snap.task = "running"
    /\ snap.taskPc = "download"
    /\ \/ \E content \in DownloadedContents :
            /\ snapDisk' = content
            /\ snap' = [snap EXCEPT !.taskPc = "verify"]
            /\ UNCHANGED <<completeMarker, staleMarker>>
       \/ /\ snapDisk' = AfterFailure(snapDisk)
          /\ completeMarker' = (completeMarker /\ snapDisk' # "removed")
          /\ staleMarker' = (staleMarker /\ snapDisk' # "removed")
          /\ snap' = [snap EXCEPT !.task = "failed", !.taskPc = "idle"]
    /\ UNCHANGED <<completeBasis, snapOps, wroteOverMarker>>

\* _run_download: verify_cache has returned (.cache_complete is written and
\* .cache_stale removed) or raised (the directory is removed).
RunSnapshotVerify ==
    /\ snap.task = "running"
    /\ snap.taskPc = "verify"
    /\ \E fetch \in ManifestFetches :
          LET outcome == VerifyCache(fetch, snapDisk)
          IN IF VerifyReturns(outcome)
             THEN /\ completeMarker' = TRUE
                  /\ wroteOverMarker' = (wroteOverMarker \/ staleMarker)
                  /\ staleMarker' = FALSE
                  /\ completeBasis' = completeBasis \cup {outcome}
                  /\ snap' = [snap EXCEPT !.task = "ok", !.taskPc = "idle"]
                  /\ UNCHANGED snapDisk
             ELSE /\ snapDisk' = AfterFailure(snapDisk)
                  /\ completeMarker' = (completeMarker /\ snapDisk' # "removed")
                  /\ staleMarker' = (staleMarker /\ snapDisk' # "removed")
                  /\ snap' = [snap EXCEPT !.task = "failed", !.taskPc = "idle"]
                  /\ UNCHANGED <<completeBasis, wroteOverMarker>>
    /\ UNCHANGED snapOps

\* CacheManager._reconcile_pending collects, under the lock, the snapshot
\* as one that needs reconciliation; its reconcile is awaited after those
\* of the snapshots collected before it.
ReconcilePending ==
    /\ snap.recPc = "idle"
    /\ NeedsReconciliation
    /\ snapOps < MaxSnapshotOps
    /\ snapOps' = snapOps + 1
    /\ snap' = [snap EXCEPT !.recPc = "pending"]
    /\ UNCHANGED <<snapDisk, completeMarker, staleMarker, completeBasis, wroteOverMarker>>

\* reconcile, called for a collected snapshot, up to its await of
\* fetch_hf_info; it tests the directory and nothing else.
Reconcile ==
    /\ snap.recPc = "pending"
    /\ snap' = IF ~IsPresent(snapDisk)
               THEN [snap EXCEPT !.recPc = "idle", !.reconciled = TRUE,
                                 !.recOutcome = "nothing on disk"]
               ELSE [snap EXCEPT !.recPc = "info"]
    /\ UNCHANGED <<snapDisk, completeMarker, staleMarker, completeBasis, snapOps,
                   wroteOverMarker>>

\* reconcile: fetch_hf_info has returned or raised; with a repo_id both
\* markers are cleared and verify_cache is awaited.
ReconcileInfo ==
    /\ snap.recPc = "info"
    /\ \E info \in {"ok", "error", "no_repo_id"} :
          IF info = "ok"
          THEN /\ completeMarker' = FALSE
               /\ staleMarker' = FALSE
               /\ snap' = [snap EXCEPT !.recPc = "verify"]
          ELSE /\ snap' = [snap EXCEPT !.recPc = "idle", !.recOutcome = info]
               /\ UNCHANGED <<completeMarker, staleMarker>>
    /\ UNCHANGED <<snapDisk, completeBasis, snapOps, wroteOverMarker>>

\* reconcile: verify_cache has returned (.cache_complete, whose write fails
\* in a directory that was removed meanwhile) or raised (missing file: no
\* marker; any other ValueError: .cache_stale).
ReconcileVerify ==
    /\ snap.recPc = "verify"
    /\ \E fetch \in ManifestFetches :
          LET outcome == VerifyCache(fetch, snapDisk)
          IN IF VerifyReturns(outcome) /\ snapDisk # "removed"
             THEN /\ completeMarker' = TRUE
                  /\ wroteOverMarker' = (wroteOverMarker \/ staleMarker)
                  /\ completeBasis' = completeBasis \cup {outcome}
                  /\ snap' = [snap EXCEPT !.recPc = "idle", !.reconciled = TRUE,
                                          !.recOutcome = outcome]
                  /\ UNCHANGED staleMarker
             ELSE IF VerifyReturns(outcome)
                     \/ outcome \in {"Missing file", "Cache directory not found"}
             THEN /\ snap' = [snap EXCEPT !.recPc = "idle", !.recOutcome = outcome]
                  /\ UNCHANGED <<completeMarker, staleMarker, completeBasis,
                                 wroteOverMarker>>
             ELSE /\ staleMarker' = TRUE
                  /\ wroteOverMarker' = (wroteOverMarker \/ completeMarker)
                  /\ snap' = [snap EXCEPT !.recPc = "idle", !.reconciled = TRUE,
                                          !.recOutcome = outcome]
                  /\ UNCHANGED <<completeMarker, completeBasis>>
    /\ UNCHANGED <<snapDisk, snapOps>>

\* A chute pod sharing the volume writes more files of the model.
PodWrites ==
    /\ snap.task # "running"
    /\ snapDisk \in {"none", "removed", "partial"}
    /\ snapDisk' = IF snapDisk = "partial" THEN "matching" ELSE "partial"
    /\ UNCHANGED <<snap, completeMarker, staleMarker, completeBasis, snapOps, wroteOverMarker>>

(***************************************************************************)
(* Model cache: the CacheManager map of snapshots (cache/manager.py)       *)
(***************************************************************************)

\* Bound on the number of requests and pod writes of one run.
MaxManagerOps == 4

\* Bound on the number of HuggingFaceSnapshot objects of one run.
MaxObjects == 3

MgrChutes == {"c1", "c2"}
ChuteOrder == <<"c1", "c2">>
Callers == {1, 2}

\* A chute directory holds "none", an empty "hub", or "models" (hub/models--*).
NoCall == [op |-> "idle", obj |-> 0, todo |-> <<>>]
NoStep == [op |-> "none", chute |-> None, force |-> FALSE, status |-> None,
           removed |-> {}, wasRunning |-> {}, obj |-> 0, before |-> 0]

\* HuggingFaceSnapshot(chute_id, externally_managed)
\* thread: the worker thread of asyncio.to_thread(do_download) is running.
NewSnapshot(c, ext) == [chute |-> c, task |-> "none", ext |-> ext, thread |-> FALSE]

\* HuggingFaceSnapshot.is_in_progress: a task whose cancellation was
\* requested is not done until the event loop has run it.
ObjInProgress(o) == objs[o].task \in {"running", "cancelling"}

\* The chutes some snapshot object, tracked or not, is downloading.
ChutesDownloading ==
    {c \in MgrChutes : \E o \in 1..Len(objs) : objs[o].chute = c /\ ObjInProgress(o)}

\* HuggingFaceSnapshot.is_present_on_disk
OnDisk(c) == mgrDisk[c] = "models"

RECURSIVE TrackedAtStart(_, _)
\* CacheManager.initialize: one snapshot per directory holding a model.
TrackedAtStart(disk, i) ==
    IF i > Len(ChuteOrder) THEN <<>>
    ELSE (IF disk[ChuteOrder[i]] = "models"
          THEN <<NewSnapshot(ChuteOrder[i], FALSE)>> ELSE <<>>)
         \o TrackedAtStart(disk, i + 1)

InitManager ==
    /\ mgrDisk \in [MgrChutes -> {"none", "models"}]
    /\ objs = TrackedAtStart(mgrDisk, 1)
    /\ chutes = [c \in MgrChutes |->
                   IF \E o \in 1..Len(objs) : objs[o].chute = c
                   THEN CHOOSE o \in 1..Len(objs) : objs[o].chute = c ELSE 0]
    /\ mgrCalls = [h \in Callers |-> NoCall]
    /\ mgrOps = 0
    /\ mgrStep = NoStep
    /\ mgrLock = None

\* An `async with self._lock` block that is left only when the coroutine
\* that entered it returns.
KeepLock(holder) == holder

\* The end of an `async with self._lock` block: every block of the manager
\* ends before the next await of the coroutine that entered it.
ReleaseLock(holder) == None

\* HuggingFaceSnapshot.delete leaving the task alone.
DeleteObjsNoCancel(os, gone) == os

\* HuggingFaceSnapshot.delete on the objects gone: cancel_download (the
\* rmtree is the caller's update of mgrDisk).
DeleteObjs(os, gone) ==
    [o \in DOMAIN os |->
        IF o \in gone /\ os[o].task = "running"
        THEN [os[o] EXCEPT !.task = "cancelling"] ELSE os[o]]

\* The download endpoint's answer for a snapshot: IN_PROGRESS for a running
\* task, PRESENT for a model on disk unless forced, else a new download.
DownloadDecision(inProgress, onDisk, force) ==
    IF inProgress THEN "in_progress"
    ELSE IF onDisk /\ ~force THEN "present"
    ELSE "starting"

\* The delete endpoint's answer: 409 for a download in progress unless
\* forced, else what CacheManager.remove finds.
DeleteDecision(tracked, inProgress, force) ==
    IF inProgress /\ ~force THEN "409"
    ELSE IF tracked THEN "deleted" ELSE "not found"

\* A download request: get_or_create, then start_download up to its await
\* of fetch_repo_total_size when the endpoint decides to download.
MgrDownload(h, c, force) ==
    /\ mgrCalls[h].op = "idle"
    /\ mgrOps < MaxManagerOps
    /\ mgrLock = None
    /\ mgrLock' = ReleaseLock(ToString(h))
    /\ chutes[c] = 0 => Len(objs) < MaxObjects
    /\ mgrOps' = mgrOps + 1
    /\ LET o == IF chutes[c] = 0 THEN Len(objs) + 1 ELSE chutes[c]
           os == IF chutes[c] = 0 THEN Append(objs, NewSnapshot(c, FALSE)) ELSE objs
           status == DownloadDecision(os[o].task \in {"running", "cancelling"},
                                      OnDisk(c), force)
       IN /\ objs' = os
          /\ chutes' = [chutes EXCEPT ![c] = o]
          /\ IF status = "starting"
             THEN /\ mgrDisk' = [mgrDisk EXCEPT ![c] = IF @ = "none" THEN "hub" ELSE @]
                  /\ mgrCalls' = [mgrCalls EXCEPT ![h] =
                                     [op |-> "sizing", obj |-> o, todo |-> <<>>]]
             ELSE UNCHANGED <<mgrDisk, mgrCalls>>
          /\ mgrStep' = [NoStep EXCEPT !.op = "download", !.chute = c, !.force = force,
                                       !.status = status, !.obj = o]

\* _run_download: the worker thread of asyncio.to_thread after the task
\* awaiting it was cancelled; a thread cannot be cancelled and runs on.
WorkerAfterCancel(running) == running

\* start_download after fetch_repo_total_size has returned: create the
\* task, which hands snapshot_download to a worker thread.
MgrStartTask(h) ==
    /\ mgrCalls[h].op = "sizing"
    /\ objs' = [objs EXCEPT ![mgrCalls[h].obj].task = "running",
                            ![mgrCalls[h].obj].thread = TRUE]
    /\ mgrCalls' = [mgrCalls EXCEPT ![h] = NoCall]
    /\ mgrStep' = [NoStep EXCEPT !.op = "start_task", !.obj = mgrCalls[h].obj,
                                 !.chute = objs[mgrCalls[h].obj].chute,
                                 !.status = "started"]
    /\ UNCHANGED <<chutes, mgrDisk, mgrOps, mgrLock>>

\* do_download: snapshot_download, in its worker thread, writes the model
\* under hub/, creating the directories it needs.
TaskWrites(o) ==
    /\ objs[o].thread
    /\ mgrDisk[objs[o].chute] # "models"
    /\ mgrDisk' = [mgrDisk EXCEPT ![objs[o].chute] = "models"]
    /\ mgrStep' = [NoStep EXCEPT !.op = "task_write", !.obj = o,
                                 !.chute = objs[o].chute]
    /\ UNCHANGED <<chutes, objs, mgrCalls, mgrOps, mgrLock>>

\* The worker thread comes to its end: snapshot_download has returned.
WorkerEnds(o) ==
    /\ objs[o].thread
    /\ objs' = [objs EXCEPT ![o].thread = FALSE]
    /\ mgrStep' = NoStep
    /\ UNCHANGED <<chutes, mgrDisk, mgrCalls, mgrOps, mgrLock>>

\* _run_download returns, or raises and removes the directory; its worker
\* thread has returned or raised before.
TaskEnds(o) ==
    /\ objs[o].task = "running"
    /\ \E ok \in BOOLEAN :
          /\ ok => OnDisk(objs[o].chute)
          /\ objs' = [objs EXCEPT ![o].task = IF ok THEN "done" ELSE "failed",
                                  ![o].thread = FALSE]
          /\ mgrDisk' = IF ok THEN mgrDisk
                        ELSE [mgrDisk EXCEPT ![objs[o].chute] = "none"]
    /\ mgrStep' = NoStep
    /\ UNCHANGED <<chutes, mgrCalls, mgrOps, mgrLock>>

\* The event loop delivers CancelledError to a cancelled task.
TaskCancelled(o) ==
    /\ objs[o].task = "cancelling"
    /\ objs' = [objs EXCEPT ![o].task = "cancelled",
                            ![o].thread = WorkerAfterCancel(@)]
    /\ mgrStep' = NoStep
    /\ UNCHANGED <<chutes, mgrDisk, mgrCalls, mgrOps, mgrLock>>

\* A delete request: CacheManager.remove unless the endpoint answers 409.
MgrDelete(c, force) ==
    /\ mgrOps < MaxManagerOps
    /\ mgrOps' = mgrOps + 1
    /\ mgrLock = None
    /\ mgrLock' = ReleaseLock("remove")
    /\ LET o == chutes[c]
           running == o # 0 /\ ObjInProgress(o)
           status == DeleteDecision(o # 0, running, force)
       IN /\ IF status = "deleted"
             THEN /\ chutes' = [chutes EXCEPT ![c] = 0]
                  /\ objs' = DeleteObjs(objs, {o})
                  /\ mgrDisk' = [mgrDisk EXCEPT ![c] = "none"]
             ELSE UNCHANGED <<chutes, objs, mgrDisk>>
          /\ mgrStep' = [NoStep EXCEPT !.op = "delete", !.chute = c, !.force = force,
                                       !.status = status, !.obj = o,
                                       !.wasRunning = IF running THEN {c} ELSE {}]
    /\ UNCHANGED mgrCalls

\* CacheManager.cleanup skips a snapshot that is in progress.
CleanupSkips(o) == ObjInProgress(o)

\* CacheManager.cleanup: the candidates are the tracked snapshots that are
\* not skipped and hold files; which of them are old, or exceed the size
\* cap, is the caller's choice of max_age_days and max_size_gb.
CleanupCandidates ==
    {c \in MgrChutes : chutes[c] # 0 /\ ~CleanupSkips(chutes[c]) /\ mgrDisk[c] = "models"}

MgrCleanup(gone) ==
    /\ mgrOps < MaxManagerOps
    /\ mgrLock = None
    /\ mgrLock' = ReleaseLock("cleanup")
    /\ gone \subseteq CleanupCandidates
    /\ mgrOps' = mgrOps + 1
    /\ chutes' = [c \in MgrChutes |-> IF c \in gone THEN 0 ELSE chutes[c]]
    /\ objs' = DeleteObjs(objs, {chutes[c] : c \in gone})
    /\ mgrDisk' = [c \in MgrChutes |-> IF c \in gone THEN "none" ELSE mgrDisk[c]]
    /\ mgrStep' = [NoStep EXCEPT !.op = "cleanup", !.removed = gone,
                                 !.wasRunning = ChutesDownloading]
    /\ UNCHANGED mgrCalls

RECURSIVE Discovered(_, _)
\* _discover_new_entries from position i of the directory listing on, n
\* being the number of snapshot objects that exist already.
Discovered(i, n) ==
    IF i > Len(ChuteOrder) THEN <<>>
    ELSE IF OnDisk(ChuteOrder[i]) /\ chutes[ChuteOrder[i]] = 0
         THEN <<n + 1>> \o Discovered(i + 1, n + 1)
         ELSE Discovered(i + 1, n)

RECURSIVE DiscoveredObjs(_)
DiscoveredObjs(i) ==
    IF i > Len(ChuteOrder) THEN <<>>
    ELSE (IF OnDisk(ChuteOrder[i]) /\ chutes[ChuteOrder[i]] = 0
          THEN <<NewSnapshot(ChuteOrder[i], TRUE)>> ELSE <<>>)
         \o DiscoveredObjs(i + 1)

\* _reconcile_pending up to its first await: the pending list is collected
\* under the lock, and the call is suspended in reconcile when the list is
\* not empty.  _reconciled is not a state of this model (SpecSnapshot): a
\* tracked snapshot without task that is on disk counts as pending.
ReconcilePendingCall(tracked) ==
    IF \E c \in MgrChutes :
          tracked[c] # 0 /\ objs[tracked[c]].task = "none" /\ OnDisk(c)
    THEN [op |-> "reconcile", obj |-> 0, todo |-> <<>>]
    ELSE NoCall

\* sync_from_disk up to its first await: the fetch_identity of the first
\* discovered snapshot, or the reconcile of the first pending one.
SyncFromDisk(h) ==
    /\ mgrCalls[h].op = "idle"
    /\ mgrOps < MaxManagerOps
    /\ Len(objs) + Len(DiscoveredObjs(1)) <= MaxObjects
    /\ mgrOps' = mgrOps + 1
    /\ objs' = objs \o DiscoveredObjs(1)
    /\ IF Discovered(1, Len(objs)) = <<>>
       THEN /\ mgrLock = None
            /\ mgrLock' = ReleaseLock(ToString(h))
            /\ mgrCalls' = [mgrCalls EXCEPT ![h] = ReconcilePendingCall(chutes)]
       ELSE /\ mgrCalls' = [mgrCalls EXCEPT ![h] =
                                [op |-> "identity", obj |-> 0,
                                 todo |-> Discovered(1, Len(objs))]]
            /\ UNCHANGED mgrLock
    /\ mgrStep' = [NoStep EXCEPT !.op = "sync"]
    /\ UNCHANGED <<chutes, mgrDisk>>

\* sync_from_disk inserting whatever the map holds.
SyncInsertsOverNothing(c) == FALSE

\* sync_from_disk: TRUE when the discovered snapshot of chute c is dropped
\* because the map holds a snapshot for c by now.
SyncInsertsOver(c) == chutes[c] # 0

\* sync_from_disk after a fetch_identity has returned: insert under the
\* lock, then the next fetch_identity or _reconcile_pending.
SyncInsert(h) ==
    /\ mgrCalls[h].op = "identity"
    /\ mgrLock = None
    /\ mgrLock' = ReleaseLock(ToString(h))
    /\ LET o == Head(mgrCalls[h].todo)
           c == objs[o].chute
           rest == Tail(mgrCalls[h].todo)
       IN /\ chutes' = IF SyncInsertsOver(c) THEN chutes ELSE [chutes EXCEPT ![c] = o]
          /\ mgrCalls' = [mgrCalls EXCEPT ![h] =
                             IF rest = <<>> THEN ReconcilePendingCall(chutes')
                             ELSE [@ EXCEPT !.todo = rest]]
          /\ mgrStep' = [NoStep EXCEPT !.op = "sync_insert", !.chute = c, !.obj = o,
                                       !.before = chutes[c]]
    /\ UNCHANGED <<objs, mgrDisk, mgrOps>>

\* _reconcile_pending: the reconcile calls of the pending snapshots have
\* returned, and sync_from_disk with them.
SyncReconciled(h) ==
    /\ mgrCalls[h].op = "reconcile"
    /\ mgrCalls' = [mgrCalls EXCEPT ![h] = NoCall]
    /\ mgrStep' = NoStep
    /\ UNCHANGED <<chutes, objs, mgrDisk, mgrOps, mgrLock>>

\* A chute pod sharing the volume downloads a model into its directory.
PodCreates(c) ==
    /\ mgrOps < MaxManagerOps
    /\ mgrDisk[c] = "none"
    /\ mgrOps' = mgrOps + 1
    /\ mgrDisk' = [mgrDisk EXCEPT ![c] = "models"]
    /\ mgrStep' = NoStep
    /\ UNCHANGED <<chutes, objs, mgrCalls, mgrLock>>

(***************************************************************************)
(* CacheManager.cleanup: eviction by age and by size (cache/manager.py)    *)
(***************************************************************************)

\* The chutes of _chutes, in the order of the dict.
CleanupChutes == <<"c1", "c2", "c3">>

GiB == 1024 * 1024 * 1024
SecondsPerDay == 24 * 3600

\* time.time() when cleanup runs.
CleanupNow == 10 * SecondsPerDay

\* What _scan_hub reports for a tracked snapshot: the size on disk (0 for
\* no hub directory or a failed scan), whether the repo id contains the
\* exclude pattern, and the last access (0 for None, see `last_acc or 0`).
ScanSizes == {0, GiB \div 2, (GiB \div 2) + 1}
ScanLastAccess == {0, CleanupNow - SecondsPerDay}

TrackedEntries ==
    [tracked : {TRUE}, inProgress : BOOLEAN, size : ScanSizes,
     repoMatches : BOOLEAN, lastAcc : ScanLastAccess]
UntrackedEntry == [tracked |-> FALSE, inProgress |-> FALSE, size |-> 0,
                   repoMatches |-> FALSE, lastAcc |-> 0]

\* The calls of the model: the body of POST /cache/cleanup.
CleanupMaxAgeDays == {0, 5}
CleanupMaxSizeGb == {0, 1}
CleanupPatterns == {None, "pat"}

\* The candidates list of cleanup from chute i on: (chute, size, last_acc)
\* of every tracked snapshot that is not in progress, holds bytes and is
\* not excluded.
RECURSIVE CandidatesFrom(_, _, _)
CandidatesFrom(entries, pattern, i) ==
    IF i > Len(CleanupChutes) THEN <<>>
    ELSE LET e == entries[CleanupChutes[i]]
         IN (IF \/ ~e.tracked
                \/ e.inProgress
                \/ e.size = 0
                \/ (pattern # None /\ e.repoMatches)
             THEN <<>>
             ELSE <<[chute |-> CleanupChutes[i], size |-> e.size,
                     lastAcc |-> e.lastAcc]>>)
            \o CandidatesFrom(entries, pattern, i + 1)

Candidates(entries, pattern) == CandidatesFrom(entries, pattern, 1)

\* sum(s for _, s, _ in candidates)
RECURSIVE TotalSize(_)
TotalSize(cands) ==
    IF cands = <<>> THEN 0 ELSE Head(cands).size + TotalSize(Tail(cands))

\* The age pass: the candidates with last_acc < cutoff_time, in order.
AgeRemoved(cands, cutoff) == SelectSeq(cands, LAMBDA c : c.lastAcc < cutoff)

\* The candidates whose chute is not in removed_set.
NotRemoved(cands, removed) ==
    SelectSeq(cands, LAMBDA c : \A i \in DOMAIN removed : removed[i].chute # c.chute)

\* Variant of the sort: ascending, the smallest candidate first.
RECURSIVE InsertBySizeAscending(_, _)
InsertBySizeAscending(c, sorted) ==
    IF sorted = <<>> THEN <<c>>
    ELSE IF Head(sorted).size > c.size THEN <<c>> \o sorted
    ELSE <<Head(sorted)>> \o InsertBySizeAscending(c, Tail(sorted))

\* candidates.sort(key=size, reverse=True): a stable sort, so that c goes
\* before the first element smaller than it.
RECURSIVE InsertBySize(_, _)
InsertBySize(c, sorted) ==
    IF sorted = <<>> THEN <<c>>
    ELSE IF Head(sorted).size < c.size THEN <<c>> \o sorted
    ELSE <<Head(sorted)>> \o InsertBySize(c, Tail(sorted))

RECURSIVE SortBySize(_)
SortBySize(cands) ==
    IF cands = <<>> THEN <<>>
    ELSE InsertBySize(cands[Len(cands)], SortBySize(SubSeq(cands, 1, Len(cands) - 1)))

\* The size pass over the sorted candidates: remove until the total is
\* within the cap.
RECURSIVE SizeRemoved(_, _, _)
SizeRemoved(sorted, total, cap) ==
    IF sorted = <<>> \/ total <= cap THEN <<>>
    ELSE <<Head(sorted)>> \o SizeRemoved(Tail(sorted), total - Head(sorted).size, cap)

\* CacheManager.cleanup: the removed candidates, by age and then by size.
CleanupRemoved(entries, maxAgeDays, maxSizeGb, pattern) ==
    LET maxSizeBytes == maxSizeGb * GiB
        cutoff == CleanupNow - (maxAgeDays * SecondsPerDay)
        cands == Candidates(entries, pattern)
        byAge == AgeRemoved(cands, cutoff)
        rest == NotRemoved(cands, byAge)
        total == TotalSize(rest)
    IN byAge \o (IF total > maxSizeBytes
                 THEN SizeRemoved(SortBySize(rest), total, maxSizeBytes)
                 ELSE <<>>)

\* removed_chutes of the CleanupResult.
RemovedChutes(removed) == [i \in DOMAIN removed |-> removed[i].chute]

NoCleanupCall == [entries |-> [c \in {"c1", "c2", "c3"} |-> UntrackedEntry],
                  maxAgeDays |-> 0, maxSizeGb |-> 0, pattern |-> None]
NoCleanupResult == [freed |-> 0, removed |-> <<>>, tracked |-> {}]

InitCleanup ==
    /\ cleanupPc = "idle"
    /\ cleanupIn = NoCleanupCall
    /\ cleanupOut = NoCleanupResult

\* cleanup is called on a manager tracking some snapshots, and returns.
Cleanup ==
    /\ cleanupPc = "idle"
    /\ \E entries \in [{"c1", "c2", "c3"} -> TrackedEntries \cup {UntrackedEntry}],
          maxAgeDays \in CleanupMaxAgeDays, maxSizeGb \in CleanupMaxSizeGb,
          pattern \in CleanupPatterns :
          LET removed == CleanupRemoved(entries, maxAgeDays, maxSizeGb, pattern)
          IN /\ cleanupIn' = [entries |-> entries, maxAgeDays |-> maxAgeDays,
                              maxSizeGb |-> maxSizeGb, pattern |-> pattern]
             /\ cleanupOut' =
                   [freed |-> TotalSize(removed),
                    removed |-> RemovedChutes(removed),
                    tracked |-> {c \in {"c1", "c2", "c3"} :
                                   /\ entries[c].tracked
                                   /\ \A i \in DOMAIN removed : removed[i].chute # c}]
    /\ cleanupPc' = "done"

\* The CleanupResult has been returned.
CleanupReturn ==
    /\ cleanupPc = "done"
    /\ cleanupPc' = "idle"
    /\ cleanupIn' = NoCleanupCall
    /\ cleanupOut' = NoCleanupResult

(***************************************************************************)
(* verify_cache, file by file (system_manager/cache/util.py)                *)
(***************************************************************************)

\* Paths are sequences of their parts; UnderscoreParts are the names that
\* start with "_".
VerifyPaths == {<<"model.bin">>, <<"_meta.json">>, <<"sub", "_extra.bin">>}
UnderscoreParts == {"_meta.json", "_extra.bin"}

\* str.startswith("_") of one path part
PartStartsWithUnderscore(part) == part \in UnderscoreParts

\* item.get("path", "").startswith("_"): the first character of the whole path
PathStartsWithUnderscore(path) == PartStartsWithUnderscore(path[1])

\* any(part.startswith("_") for part in Path(rel_path).parts)
AnyPartStartsWithUnderscore(path) ==
    \E i \in 1..Len(path) : PartStartsWithUnderscore(path[i])

\* Digests: a name and its length in characters.
Sha256A == [name |-> "sha-a", length |-> 64]
Sha256B == [name |-> "sha-b", length |-> 64]
BlobId == [name |-> "git-blob", length |-> 40]

\* A hash or a size that is None.
NoHash == [name |-> "none", length |-> 0]
NoSize == -1

\* Entries of the "files" list of the manifest.
ManifestItem(path, lfs, sha, blob, size) ==
    [path |-> path, is_lfs |-> lfs, sha256 |-> sha, blob_id |-> blob, size |-> size]

ManifestItems ==
    { ManifestItem(p, TRUE, Sha256A, NoHash, 1) : p \in VerifyPaths }
    \cup { ManifestItem(p, TRUE, Sha256B, NoHash, 1) : p \in VerifyPaths }
    \cup { ManifestItem(p, TRUE, Sha256A, NoHash, 2) : p \in VerifyPaths }
    \cup { ManifestItem(p, TRUE, Sha256A, NoHash, NoSize) : p \in VerifyPaths }
    \cup { ManifestItem(p, TRUE, NoHash, NoHash, 1) : p \in VerifyPaths }
    \cup { ManifestItem(p, FALSE, NoHash, BlobId, 1) : p \in VerifyPaths }

MaxManifest == 2

Manifests == UNION { [1..n -> ManifestItems] : n \in 0..MaxManifest }

\* What the snapshot directory holds under one path: nothing, a regular
\* file, or a symlink into the blob store (size NoSize: the blob is gone).
Absent == [kind |-> "absent", blob |-> NoHash, size |-> NoSize]
LocalEntries ==
    { Absent,
      [kind |-> "file", blob |-> NoHash, size |-> 1],
      [kind |-> "symlink", blob |-> Sha256A, size |-> 1],
      [kind |-> "symlink", blob |-> Sha256A, size |-> NoSize] }

\* The snapshot directory snapshots/<revision>, which may not exist.
NoSnapshotDir == [exists |-> FALSE, files |-> [p \in VerifyPaths |-> Absent]]
SnapshotDirs ==
    {NoSnapshotDir} \cup { [exists |-> TRUE, files |-> f] : f \in [VerifyPaths -> LocalEntries] }

\* remote_files[path] = (hash, size): a dict keeps the position of the first
\* insertion of a key and the value of the last.
DictPut(dict, key, value) ==
    IF \E i \in 1..Len(dict) : dict[i].key = key
    THEN [i \in 1..Len(dict) |-> IF dict[i].key = key
                                 THEN [key |-> key, value |-> value]
                                 ELSE dict[i]]
    ELSE Append(dict, [key |-> key, value |-> value])

RECURSIVE RemoteFilesFrom(_, _, _)
RemoteFilesFrom(items, k, dict) ==
    IF k > Len(items) THEN dict
    ELSE LET item == items[k] IN
         IF PathStartsWithUnderscore(item.path)
         THEN RemoteFilesFrom(items, k + 1, dict)
         ELSE RemoteFilesFrom(items, k + 1,
                  DictPut(dict, item.path,
                          [hash |-> IF item.is_lfs THEN item.sha256 ELSE item.blob_id,
                           size |-> item.size]))

RemoteFiles(items) == RemoteFilesFrom(items, 1, <<>>)

\* local_files: what rglob finds, without the paths that have a part
\* starting with "_".
LocalFilesAnyPart(dir) ==
    { p \in VerifyPaths : dir.files[p].kind # "absent" /\ ~AnyPartStartsWithUnderscore(p) }

\* The same with the filter of the manifest (first character of the path).
LocalFilesPathPrefix(dir) ==
    { p \in VerifyPaths : dir.files[p].kind # "absent" /\ ~PathStartsWithUnderscore(p) }

LocalFiles(dir) == LocalFilesAnyPart(dir)

\* get_symlink_hash
GetSymlinkHash(entry) ==
    IF entry.kind = "symlink" /\ entry.blob.length = 64 THEN entry.blob ELSE NoHash

VerifyRaised(kind, path) == [ok |-> FALSE, error |-> kind, path |-> path]
VerifyDict(verified, skipped, total) ==
    [ok |-> TRUE, verified |-> verified, skipped |-> skipped, total |-> total]

\* The loop over remote_files.items()
RECURSIVE VerifyLoop(_, _, _, _, _)
VerifyLoop(remote, k, dir, verified, skipped) ==
    IF k > Len(remote) THEN VerifyDict(verified, skipped, Len(remote))
    ELSE LET path == remote[k].key
             hash == remote[k].value.hash
             size == remote[k].value.size
         IN  IF path \notin LocalFiles(dir) THEN VerifyRaised("Missing file", path)
             ELSE IF hash = NoHash \/ hash.length = 40
                  THEN VerifyLoop(remote, k + 1, dir, verified, skipped + 1)
             ELSE IF size # NoSize /\ dir.files[path].size = NoSize
                  THEN VerifyRaised("FileNotFoundError", path)
             ELSE IF size # NoSize /\ dir.files[path].size # size
                  THEN VerifyRaised("Size mismatch", path)
             ELSE IF GetSymlinkHash(dir.files[path]) # NoHash /\ GetSymlinkHash(dir.files[path]) # hash
                  THEN VerifyRaised("Hash mismatch", path)
             ELSE VerifyLoop(remote, k + 1, dir, verified + 1, skipped)

\* verify_cache after the manifest arrived
VerifyCacheFiles(items, dir) ==
    IF ~dir.exists THEN VerifyRaised("Cache directory not found", <<>>)
    ELSE VerifyLoop(RemoteFiles(items), 1, dir, 0, 0)

NoVerifyResult == [ok |-> FALSE, error |-> None, path |-> <<>>]

InitVerify ==
    /\ verifyPc = "idle"
    /\ verifyIn = [items |-> <<>>, dir |-> NoSnapshotDir]
    /\ verifyOut = NoVerifyResult

VerifyCall ==
    /\ verifyPc = "idle"
    /\ \E items \in Manifests, dir \in SnapshotDirs :
          /\ verifyIn' = [items |-> items, dir |-> dir]
          /\ verifyOut' = VerifyCacheFiles(items, dir)
    /\ verifyPc' = "done"

VerifyReturn ==
    /\ verifyPc = "done"
    /\ verifyPc' = "idle"
    /\ verifyIn' = [items |-> <<>>, dir |-> NoSnapshotDir]
    /\ verifyOut' = NoVerifyResult

(***************************************************************************)
(* Specifications                                                          *)
(***************************************************************************)

vars == <<admVars, authVars, cosVars, dlVars, snapVars, mgrVars, valVars, clVars, vcVars>>

\* A component no request reaches stays as it was constructed; its start
\* is then one fixed state, not every start it could have.
StillAuth == InitAuth /\ authLoad = "window"
StillCosign == InitCosign /\ workload = "cache" /\ \A i \in 1..4 : ruleOrder[i] # "verify_cosign_config"
StillDownload == InitDownload /\ \A c \in DownloadChutes : dlDisk[c] = "none"
StillSnapshot == InitSnapshot /\ snapDisk = "none"
StillManager == InitManager /\ \A c \in MgrChutes : mgrDisk[c] = "none"
StillValidators == InitValidators
StillCleanup == InitCleanup
StillVerify == InitVerify

\* The states after construction, one per component under study.
InitAdm == InitAdmission /\ StillAuth /\ StillCosign /\ StillDownload /\ StillSnapshot /\ StillManager /\ StillValidators /\ StillCleanup /\ StillVerify
InitCache == InitAdmission /\ StillAuth /\ InitCosign /\ workload = "cache"
             /\ StillDownload /\ StillSnapshot /\ StillManager /\ StillValidators /\ StillCleanup /\ StillVerify
InitOverlap == InitAdmission /\ StillAuth /\ InitCosign /\ workload = "overlap"
              /\ StillDownload /\ StillSnapshot /\ StillManager /\ StillValidators /\ StillCleanup /\ StillVerify
InitPolicy == InitAdmission /\ StillAuth /\ InitCosign /\ workload = "policy"
              /\ StillDownload /\ StillSnapshot /\ StillManager /\ StillValidators /\ StillCleanup /\ StillVerify
InitDl == InitAdmission /\ StillAuth /\ StillCosign /\ InitDownload /\ StillSnapshot /\ StillManager /\ StillValidators /\ StillCleanup /\ StillVerify
InitSnap == InitAdmission /\ StillAuth /\ StillCosign /\ StillDownload /\ InitSnapshot /\ StillManager /\ StillValidators /\ StillCleanup /\ StillVerify
InitTamper == InitAdmission /\ InitAuth /\ authLoad = "tamper"
              /\ StillCosign /\ StillDownload /\ StillSnapshot /\ StillManager /\ StillValidators /\ StillCleanup /\ StillVerify

NextAdmission ==
    \/ AdmissionGather /\ UNCHANGED <<authVars, cosVars, dlVars, snapVars, mgrVars, valVars, clVars, vcVars>>
    \/ ValidateAdmission /\ UNCHANGED <<authVars, cosVars, dlVars, snapVars, mgrVars, valVars, clVars, vcVars>>
    \/ AdmissionReturn /\ UNCHANGED <<authVars, cosVars, dlVars, snapVars, mgrVars, valVars, clVars, vcVars>>

NextAuth ==
    \/ AuthorizeRequest /\ UNCHANGED <<admVars, cosVars, dlVars, snapVars, mgrVars, valVars, clVars, vcVars>>
    \/ AuthorizeReturn /\ UNCHANGED <<admVars, cosVars, dlVars, snapVars, mgrVars, valVars, clVars, vcVars>>

NextCosign ==
    \/ \E s \in Slots : CosignValidate(s) /\ UNCHANGED <<admVars, authVars, dlVars, snapVars, mgrVars, valVars, clVars, vcVars>>
    \/ \E s \in Slots : ResolveReturn(s) /\ UNCHANGED <<admVars, authVars, dlVars, snapVars, mgrVars, valVars, clVars, vcVars>>
    \/ \E s \in Slots : CosignReturn(s) /\ UNCHANGED <<admVars, authVars, dlVars, snapVars, mgrVars, valVars, clVars, vcVars>>
    \/ \E s \in Slots : CosignDone(s) /\ UNCHANGED <<admVars, authVars, dlVars, snapVars, mgrVars, valVars, clVars, vcVars>>
    \/ CosignTick /\ UNCHANGED <<admVars, authVars, dlVars, snapVars, mgrVars, valVars, clVars, vcVars>>

NextDownload ==
    \/ \E h \in Handlers : DownloadRequest(h) /\ UNCHANGED <<admVars, authVars, cosVars, snapVars, mgrVars, valVars, clVars, vcVars>>
    \/ \E h \in Handlers : FetchInfoReturn(h) /\ UNCHANGED <<admVars, authVars, cosVars, snapVars, mgrVars, valVars, clVars, vcVars>>
    \/ \E h \in Handlers : DownloadRespond(h) /\ UNCHANGED <<admVars, authVars, cosVars, snapVars, mgrVars, valVars, clVars, vcVars>>
    \/ \E h \in Handlers : DeleteChute(h) /\ UNCHANGED <<admVars, authVars, cosVars, snapVars, mgrVars, valVars, clVars, vcVars>>
    \/ \E h \in Handlers : RunCleanup(h) /\ UNCHANGED <<admVars, authVars, cosVars, snapVars, mgrVars, valVars, clVars, vcVars>>
    \/ \E t \in 1..MaxDownloadRequests :
          RunDownloadStart(t) /\ UNCHANGED <<admVars, authVars, cosVars, snapVars, mgrVars, valVars, clVars, vcVars>>
    \/ \E t \in 1..MaxDownloadRequests :
          RunDownloadFetched(t) /\ UNCHANGED <<admVars, authVars, cosVars, snapVars, mgrVars, valVars, clVars, vcVars>>
    \/ \E t \in 1..MaxDownloadRequests :
          RunDownloadVerified(t) /\ UNCHANGED <<admVars, authVars, cosVars, snapVars, mgrVars, valVars, clVars, vcVars>>

NextSnapshot ==
    \/ StartDownload /\ UNCHANGED <<admVars, authVars, cosVars, dlVars, mgrVars, valVars, clVars, vcVars>>
    \/ StartDownloadTask /\ UNCHANGED <<admVars, authVars, cosVars, dlVars, mgrVars, valVars, clVars, vcVars>>
    \/ RunSnapshotDownload /\ UNCHANGED <<admVars, authVars, cosVars, dlVars, mgrVars, valVars, clVars, vcVars>>
    \/ RunSnapshotVerify /\ UNCHANGED <<admVars, authVars, cosVars, dlVars, mgrVars, valVars, clVars, vcVars>>
    \/ ReconcilePending /\ UNCHANGED <<admVars, authVars, cosVars, dlVars, mgrVars, valVars, clVars, vcVars>>
    \/ Reconcile /\ UNCHANGED <<admVars, authVars, cosVars, dlVars, mgrVars, valVars, clVars, vcVars>>
    \/ ReconcileInfo /\ UNCHANGED <<admVars, authVars, cosVars, dlVars, mgrVars, valVars, clVars, vcVars>>
    \/ ReconcileVerify /\ UNCHANGED <<admVars, authVars, cosVars, dlVars, mgrVars, valVars, clVars, vcVars>>
    \/ PodWrites /\ UNCHANGED <<admVars, authVars, cosVars, dlVars, mgrVars, valVars, clVars, vcVars>>

InitMgr == InitAdmission /\ StillAuth /\ StillCosign /\ StillDownload /\ StillSnapshot
           /\ InitManager /\ StillValidators /\ StillCleanup /\ StillVerify

NextManager ==
    \/ \E h \in Callers, c \in MgrChutes, force \in BOOLEAN :
          MgrDownload(h, c, force) /\ UNCHANGED <<admVars, authVars, cosVars, dlVars, snapVars, valVars, clVars, vcVars>>
    \/ \E h \in Callers :
          MgrStartTask(h) /\ UNCHANGED <<admVars, authVars, cosVars, dlVars, snapVars, valVars, clVars, vcVars>>
    \/ \E o \in 1..Len(objs) :
          TaskWrites(o) /\ UNCHANGED <<admVars, authVars, cosVars, dlVars, snapVars, valVars, clVars, vcVars>>
    \/ \E o \in 1..Len(objs) :
          WorkerEnds(o) /\ UNCHANGED <<admVars, authVars, cosVars, dlVars, snapVars, valVars, clVars, vcVars>>
    \/ \E o \in 1..Len(objs) :
          TaskEnds(o) /\ UNCHANGED <<admVars, authVars, cosVars, dlVars, snapVars, valVars, clVars, vcVars>>
    \/ \E o \in 1..Len(objs) :
          TaskCancelled(o) /\ UNCHANGED <<admVars, authVars, cosVars, dlVars, snapVars, valVars, clVars, vcVars>>
    \/ \E c \in MgrChutes, force \in BOOLEAN :
          MgrDelete(c, force) /\ UNCHANGED <<admVars, authVars, cosVars, dlVars, snapVars, valVars, clVars, vcVars>>
    \/ \E gone \in SUBSET MgrChutes :
          MgrCleanup(gone) /\ UNCHANGED <<admVars, authVars, cosVars, dlVars, snapVars, valVars, clVars, vcVars>>
    \/ \E h \in Callers :
          SyncFromDisk(h) /\ UNCHANGED <<admVars, authVars, cosVars, dlVars, snapVars, valVars, clVars, vcVars>>
    \/ \E h \in Callers :
          SyncInsert(h) /\ UNCHANGED <<admVars, authVars, cosVars, dlVars, snapVars, valVars, clVars, vcVars>>
    \/ \E h \in Callers :
          SyncReconciled(h) /\ UNCHANGED <<admVars, authVars, cosVars, dlVars, snapVars, valVars, clVars, vcVars>>
    \/ \E c \in MgrChutes :
          PodCreates(c) /\ UNCHANGED <<admVars, authVars, cosVars, dlVars, snapVars, valVars, clVars, vcVars>>

InitVal == InitAdmission /\ StillAuth /\ StillCosign /\ StillDownload /\ StillSnapshot
           /\ StillManager /\ InitValidators /\ StillCleanup /\ StillVerify
InitCl == InitAdmission /\ StillAuth /\ StillCosign /\ StillDownload /\ StillSnapshot
          /\ StillManager /\ StillValidators /\ InitCleanup /\ StillVerify
InitVc == InitAdmission /\ StillAuth /\ StillCosign /\ StillDownload /\ StillSnapshot
          /\ StillManager /\ StillValidators /\ StillCleanup /\ InitVerify

NextValidators ==
    \/ RegistryValidate /\ UNCHANGED <<admVars, authVars, cosVars, dlVars, snapVars, mgrVars, clVars, vcVars>>
    \/ OpaValidate /\ UNCHANGED <<admVars, authVars, cosVars, dlVars, snapVars, mgrVars, clVars, vcVars>>
    \/ ValidatorReturn /\ UNCHANGED <<admVars, authVars, cosVars, dlVars, snapVars, mgrVars, clVars, vcVars>>

NextCleanup ==
    \/ Cleanup /\ UNCHANGED <<admVars, authVars, cosVars, dlVars, snapVars, mgrVars, valVars, vcVars>>
    \/ CleanupReturn /\ UNCHANGED <<admVars, authVars, cosVars, dlVars, snapVars, mgrVars, valVars, vcVars>>

NextVerify ==
    \/ VerifyCall /\ UNCHANGED <<admVars, authVars, cosVars, dlVars, snapVars, mgrVars, valVars, clVars>>
    \/ VerifyReturn /\ UNCHANGED <<admVars, authVars, cosVars, dlVars, snapVars, mgrVars, valVars, clVars>>

\* The admission controller alone.
SpecAdmission == InitAdm /\ [][NextAdmission]_vars

\* The authorize dependency alone.
SpecAuth == InitAdm /\ [][NextAuth]_vars

\* The authorize dependency facing resent headers.
SpecAuthTamper == InitTamper /\ [][NextAuth]_vars

\* The cosign validator under the cache workload.
SpecCosign == InitCache /\ [][NextCosign]_vars

\* The cosign validator with two validate() calls in flight.
SpecCosignOverlap == InitOverlap /\ [][NextCosign]_vars

\* The cosign validator under the policy workload.
SpecCosignPolicy == InitPolicy /\ [][NextCosign]_vars

\* The download endpoint of the cache router with its download tasks.
SpecDownload == InitDl /\ [][NextDownload]_vars

\* One snapshot of the cache manager: download task and reconciliation.
SpecSnapshot == InitSnap /\ [][NextSnapshot]_vars

\* The cache manager's map of snapshots under requests, tasks and pods.
SpecManager == InitMgr /\ [][NextManager]_vars

\* The registry validator and the policy validator, one call at a time.
SpecValidators == InitVal /\ [][NextValidators]_vars

\* CacheManager.cleanup as a function of what it finds.
SpecCleanup == InitCl /\ [][NextCleanup]_vars

\* verify_cache over manifests and snapshot directories.
SpecVerify == InitVc /\ [][NextVerify]_vars

(***************************************************************************)
(* Claims                                                                  *)
(***************************************************************************)

Contains(seq, x) == \E i \in DOMAIN seq : seq[i] = x

Raised(i) == admResults[i].kind = "exception"

\* C1: the response's allowed flag is the conjunction of all validators'
\* allowed flags, a validator that raised counting as false, and the
\* response's uid is the request's uid.
C1_AllowedIsConjunction ==
    admPc = "done" =>
        /\ admResp.allowed =
              (\A i \in 1..NumValidators : ~Raised(i) /\ admResults[i].allowed)
        /\ admReq.uid # None => admResp.uid = admReq.uid

\* A completed request with a uid in which one validator denied and the
\* other two allowed.
C1_Witness ==
    /\ admPc = "done"
    /\ admReq.uid = "u1"
    /\ admResults[2].kind = "result" /\ ~admResults[2].allowed
    /\ admResults[1].kind = "result" /\ admResults[1].allowed
    /\ admResults[3].kind = "result" /\ admResults[3].allowed
    /\ ~admResp.allowed

\* C2: when a validator raises, the response denies, its status message
\* contains "<ValidatorClassName>: Internal error" for that validator, the
\* denial messages and the warnings of the other validators are still in
\* the response, and no exception leaves validate_admission.
C2_ExceptionFailsClosed ==
    /\ ~admEscaped
    /\ admPc = "done" =>
        \A i \in 1..NumValidators :
            Raised(i) =>
                /\ ~admResp.allowed
                /\ admResp.hasStatus
                /\ Contains(admResp.statusMessage, InternalErrorMsg(i))
                /\ \A j \in 1..NumValidators :
                       ~Raised(j) =>
                           /\ \A k \in DOMAIN admResults[j].warnings :
                                  Contains(admResp.warnings, admResults[j].warnings[k])
                           /\ ~admResults[j].allowed =>
                                  \A k \in DOMAIN admResults[j].messages :
                                      Contains(admResp.statusMessage,
                                               admResults[j].messages[k])

\* A completed request in which the first validator raised and the second
\* denied with a message and a warning.
C2_Witness ==
    /\ admPc = "done"
    /\ Raised(1)
    /\ admResults[2].kind = "result" /\ ~admResults[2].allowed
    /\ admResults[2].messages = <<VMsg(2)>>
    /\ admResults[2].warnings = <<VWarn(2)>>
    /\ Contains(admResp.statusMessage, VMsg(2))

\* C3: under every interleaving of download requests at most one download
\* task is running for a given chute_id at any time.
C3_AtMostOneDownloadPerChute ==
    \A c \in DownloadChutes :
        Cardinality({t \in DOMAIN dlTasks :
                        dlTasks[t].chute = c /\ ~TaskEnded(dlTasks[t])}) <= 1

\* C4: every write of .cache_complete, by the download task and by
\* reconcile, follows a verify_cache call that obtained the upstream manifest
\* and matched the files; a verify_cache call that could not fetch the
\* manifest never leads to .cache_complete.
C4_CompleteOnlyAfterMatch == completeBasis \subseteq {"matched"}

\* C5: for a request in the namespace chutes that validate evaluates (a
\* pod-like kind, an operation other than DELETE), the result is allowed only
\* if every image of the request has a verification config that is not
\* disabled, requires a signature, uses the key method with the required key
\* path as public key, and has been verified valid.
C5_ChutesAllowsOnlyRequiredKey ==
    \A s \in Slots :
        LET r == slots[s]
        IN (/\ r.pc = "done"
            /\ r.req.namespace = "chutes"
            /\ r.req.kind \in PodKinds
            /\ r.req.operation # "DELETE"
            /\ r.result.allowed)
           => \A i \in DOMAIN r.req.images :
                 LET vc == ImageConfig(r.req.images[i])
                 IN /\ vc.has
                    /\ vc.method # "disabled"
                    /\ vc.require
                    /\ vc.method = "key"
                    /\ vc.publicKey = RequiredKeyPath
                    /\ r.req.images[i] \in verifiedValid

\* A pod creation in chutes with a correctly configured image (named twice)
\* that was verified by a cosign run and allowed.
C5_Witness ==
    \E s \in Slots :
        /\ slots[s].pc = "done"
        /\ slots[s].req.namespace = "chutes"
        /\ slots[s].req.kind = "Pod"
        /\ slots[s].req.operation = "CREATE"
        /\ slots[s].req.images = <<"good1", "good1">>
        /\ slots[s].outcome = "computed"
        /\ slots[s].calls = 1
        /\ slots[s].result.allowed

\* The cosign run of call s has just ended with a connection/infra failure
\* and without a rate-limit signal.
C6_InfraFailureStep(s) ==
    /\ slots[s].pc = "cosign"
    /\ slots'[s].pc # "cosign"
    /\ slots'[s].infraFailure

\* C6: when the verification of an image fails with a network/infra failure,
\* validate returns deny and writes nothing to the admission-result cache nor
\* to the positive or negative per-image cache, so that neither the request
\* nor the image has a cached result when the next request with the same
\* namespace, kind and images arrives.
C6_UnavailableIsNotCached ==
    [][\A s \in Slots :
          C6_InfraFailureStep(s) =>
              LET r == slots'[s]
                  img == r.req.images[r.idx]
              IN /\ r.pc = "done"
                 /\ ~r.result.allowed
                 /\ r.result.messages = <<<<UnavailableMessage>>>>
                 /\ UNCHANGED <<admissionCache, resultCache, negativeCache>>
                 /\ ~\E e \in admissionCache' :
                        /\ cosNow' < e.exp
                        /\ e.key[1] = r.req.namespace
                        /\ e.key[2] = r.req.kind
                        /\ e.key[3] = SortedImages(r.req.images)
                 /\ ~\E e \in resultCache' \cup negativeCache' :
                        cosNow' < e.exp /\ e.key[1] = r.ref]_vars

\* A request whose first image was verified and cached and whose second
\* image met the infra failure: denied, and not in the admission-result cache.
C6_Witness ==
    \E s \in Slots :
        /\ slots[s].pc = "done"
        /\ slots[s].infraFailure
        /\ slots[s].idx = 2
        /\ slots[s].calls = 2
        /\ ~slots[s].result.allowed
        /\ resultCache # {}
        /\ admissionCache = {}

\* C7: a call of the per-image verification made while the current time is
\* earlier than rate_limit_until ends at once with the RateLimitError (the
\* request is denied with its message): the call never reaches the resolution
\* of the image, the per-image caches or the cosign run.
C7_BackoffSkipsVerifier ==
    \A s \in Slots :
        slots[s].callLimited =>
            /\ slots[s].pc = "done"
            /\ slots[s].outcome = "paused"
            /\ ~slots[s].result.allowed
            /\ slots[s].viol[Len(slots[s].viol)] = PausedViolation

\* A second request, with other images than the rate-limited first one,
\* whose first verification call was made during the backoff, after time
\* had passed: no cosign run.
C7_Witness ==
    \E s \in Slots :
        /\ slots[s].callLimited
        /\ slots[s].pc = "done"
        /\ slots[s].calls = 0
        /\ cosCount = 2
        /\ cosTicks = 1
        /\ cosNow < rateLimitUntil

\* The cosign run of call s has just ended with an output that matches a
\* rate-limit pattern.
C8_RateLimitStep(s) ==
    /\ slots[s].pc = "cosign"
    /\ slots'[s].pc # "cosign"
    /\ slots'[s].rateLimitHit

\* C8 as stated: when the output of the verifier for an image matches a
\* rate-limit pattern, rate_limit_until is set to now + backoff, no later
\* image of the request is verified, and the request is denied with a single
\* violation string, the one describing the rate limit.
C8_SingleViolation ==
    [][\A s \in Slots :
          C8_RateLimitStep(s) =>
              /\ rateLimitUntil' = cosNow + RateLimitBackoffSeconds
              /\ slots'[s].pc = "done"
              /\ slots'[s].idx = slots[s].idx
              /\ ~slots'[s].result.allowed
              /\ slots'[s].viol = <<RateLimitViolation>>]_vars

\* C8 amended: when the output of the verifier for an image matches a
\* rate-limit pattern, rate_limit_until is set to now + backoff, no later
\* image of the request is verified and no later rule runs, and the request
\* is denied; the verification rule contributes exactly one violation, the
\* one describing the rate limit, in place of the signature violations it
\* had found, and it comes after the violations of the rules that ran before.
C8_RateLimitAborts ==
    [][\A s \in Slots :
          C8_RateLimitStep(s) =>
              LET v == slots'[s].viol
              IN /\ rateLimitUntil' = cosNow + RateLimitBackoffSeconds
                 /\ slots'[s].pc = "done"
                 /\ slots'[s].idx = slots[s].idx
                 /\ ~slots'[s].result.allowed
                 /\ Len(v) >= 1
                 /\ v[Len(v)] = RateLimitViolation
                 /\ \A i \in 1..(Len(v) - 1) :
                        /\ v[i] # RateLimitViolation
                        /\ v[i][1] # SignatureViolation(v[i][2])[1]
                 /\ slots'[s].result.messages = <<JoinSeq(v, <<"; ", "">>)>>]_vars

\* A request in chutes whose first image has no config and whose second
\* image met the rate limit: denied with two violations.
C8_Witness ==
    \E s \in Slots :
        /\ slots[s].pc = "done"
        /\ slots[s].rateLimitHit
        /\ slots[s].req.images = <<"noconfig", "good1">>
        /\ Len(slots[s].viol) = 2
        /\ slots[s].viol[2] = RateLimitViolation
        /\ rateLimitUntil = cosNow + RateLimitBackoffSeconds

\* The same images, whatever their order.
SameImages(a, b) ==
    /\ Len(a) = Len(b)
    /\ \A x \in Images :
           Cardinality({i \in DOMAIN a : a[i] = x}) =
           Cardinality({i \in DOMAIN b : b[i] = x})

\* A live entry of the admission-result cache for the namespace, the kind
\* and the images of a request.
CachedFor(e, req) ==
    /\ e \in admissionCache
    /\ cosNow < e.exp
    /\ e.key[1] = req.namespace
    /\ e.key[2] = req.kind
    /\ SameImages(e.key[3], req.images)

C10_NonceWindowBothDirections ==
    (/\ authPc = "done"
     /\ authIn.nonce.kind = "num"
     /\ \/ authIn.now - authIn.nonce.val >= NonceWindow
        \/ authIn.nonce.val - authIn.now >= NonceWindow)
    => authOut # "ok"

\* C12: .cache_complete and .cache_stale are never both present in a
\* snapshot directory, and no marker is written, by the download task or by
\* reconcile, while the other marker still exists.
C12_MarkersExclusive ==
    /\ ~(completeMarker /\ staleMarker)
    /\ ~wroteOverMarker

\* Two authorized requests with the same X-Hotkey, X-Nonce and X-Signature
\* headers and different non-empty bodies.
SameHeadersOtherBody(a, b) ==
    /\ a.hotkey = b.hotkey
    /\ a.nonce = b.nonce
    /\ a.signature = b.signature
    /\ a.body # None
    /\ b.body # None
    /\ a.body # b.body

\* C11 as stated: of two requests with the same X-Hotkey, X-Nonce and
\* X-Signature headers and different non-empty bodies at most one is
\* authorized, whatever their method.
C11_TamperedBodyRejected ==
    \A a \in authLog : \A b \in authLog : ~SameHeadersOtherBody(a, b)

\* C11 amended: of two POST, PUT or PATCH requests with the same X-Hotkey,
\* X-Nonce and X-Signature headers and different non-empty bodies at most
\* one is authorized (for these methods the signing string holds the
\* SHA-256 of the body; for every other method the body is not hashed and
\* the signing string holds the purpose).
C11_TamperedPostBodyRejected ==
    \A a \in authLog : \A b \in authLog :
        (/\ a.method \in {"POST", "PUT", "PATCH"}
         /\ b.method \in {"POST", "PUT", "PATCH"})
        => ~SameHeadersOtherBody(a, b)

\* A POST with body b1 was authorized and the same headers sent with
\* body b2 are answered Unauthorized.
C11_Witness ==
    /\ authPc = "done"
    /\ authOut = "401"
    /\ authIn.method = "POST"
    /\ authIn.body = "b2"
    /\ \E a \in authLog :
           /\ a.method = "POST"
           /\ a.body = "b1"
           /\ a.hotkey = authIn.hotkey
           /\ a.nonce = authIn.nonce
           /\ a.signature = authIn.signature

\* C13: a cleanup never removes the directory or the tracking entry of a
\* chute some snapshot is downloading at that moment.
C13_CleanupSparesDownloads ==
    mgrStep.op = "cleanup" => mgrStep.removed \cap mgrStep.wasRunning = {}

C15_ForceRelaunches ==
    \A h \in Handlers :
        dlHandlers[h].pc = "done" /\ dlHandlers[h].wasPresent
        => IF dlHandlers[h].force
           THEN dlHandlers[h].status = "started" /\ dlHandlers[h].launched = 1
           ELSE dlHandlers[h].status = "present" /\ dlHandlers[h].launched = 0

\* C15 amended: a download request for a chute that is present and not in
\* progress is answered PRESENT without a task when force is false; when
\* force is true the handler asks the validator for the chute's repository
\* and launches a task exactly when the validator names one.
C15_ForceRelaunchesIfIdentified ==
    \A h \in Handlers :
        dlHandlers[h].pc = "done" /\ dlHandlers[h].wasPresent
        => IF dlHandlers[h].force
           THEN /\ dlHandlers[h].info # None
                /\ dlHandlers[h].launched = (IF dlHandlers[h].info = "ok" THEN 1 ELSE 0)
                /\ dlHandlers[h].info = "ok" <=> dlHandlers[h].status = "started"
           ELSE dlHandlers[h].status = "present" /\ dlHandlers[h].launched = 0

\* A second unforced request for a present chute has been answered PRESENT
\* while a forced one has launched a task.
C15_Witness ==
    /\ dlCount = 2
    /\ \E h, g \in Handlers :
          /\ dlHandlers[h].pc = "done" /\ dlHandlers[h].wasPresent
          /\ ~dlHandlers[h].force /\ dlHandlers[h].status = "present"
          /\ dlHandlers[g].pc = "done" /\ dlHandlers[g].wasPresent
          /\ dlHandlers[g].force /\ dlHandlers[g].launched = 1

C17_OtherRevisionIsStale ==
    [][snap.recPc = "verify" /\ snap'.recPc = "idle" /\ snapDisk = "other_revision"
        => staleMarker' /\ snap'.reconciled /\ SnapStatus' = "STALE"]_vars

\* C18: a reconcile whose verify_cache could not fetch the manifest writes
\* no marker and leaves reconciled false.
C18_ManifestFailureLeavesUnreconciled ==
    [][(snap.recPc = "verify" /\ snap'.recPc = "idle"
        /\ snap'.recOutcome = "skipped_api_error")
        => (completeMarker' = completeMarker /\ staleMarker' = staleMarker
            /\ ~snap'.reconciled)]_vars

\* C19: when a reconcile ends, reconciled is true exactly when its outcome
\* was definitive: nothing on disk, every file verified against the
\* manifest, or a size or hash mismatch.
C19_ReconciledIffDefinitive ==
    [][(snap.recPc # "idle" /\ snap'.recPc = "idle")
        => (snap'.reconciled
            <=> snap'.recOutcome \in {"nothing on disk", "matched", "Size mismatch"})]_vars

\* C20: sync_from_disk creates a snapshot with externally_managed set for
\* every directory that holds a model and is not tracked, inserts it when
\* the chute is still untracked after fetch_identity and drops it otherwise;
\* no step puts another object in the place of a tracked snapshot.
C20_SyncNeverReplaces ==
    [][/\ \A c \in MgrChutes :
             chutes[c] # 0 /\ chutes'[c] # 0 => chutes'[c] = chutes[c]
       /\ mgrStep'.op = "sync"
            => \A c \in MgrChutes :
                  OnDisk(c) /\ chutes[c] = 0
                  => \E h \in Callers : \E i \in DOMAIN mgrCalls'[h].todo :
                        /\ mgrCalls[h].op = "idle"
                        /\ objs'[mgrCalls'[h].todo[i]].chute = c
                        /\ objs'[mgrCalls'[h].todo[i]].ext
                        /\ mgrCalls'[h].todo[i] > Len(objs)
       /\ mgrStep'.op = "sync_insert"
            => IF mgrStep'.before = 0
               THEN /\ chutes'[mgrStep'.chute] = mgrStep'.obj
                    /\ objs'[mgrStep'.obj].ext
               ELSE chutes'[mgrStep'.chute] = mgrStep'.before]_vars

\* A sync_from_disk has found the chute of its discovered snapshot tracked
\* by a snapshot with a running task, and has kept that one.
C20_Witness ==
    /\ mgrStep.op = "sync_insert" /\ mgrStep.before # 0
    /\ chutes[mgrStep.chute] = mgrStep.before
    /\ objs[mgrStep.before].task = "running"

\* C21: the signature validator allows every request in a namespace whose
\* policy is exempt, whatever its images (as the registry and the policy
\* validator do).
C21_ExemptNamespaceAllowed ==
    \A s \in Slots :
        slots[s].pc = "done" /\ IsNamespaceExempt(slots[s].req.namespace)
        => slots[s].result.allowed

\* C22: when every validator returned a result, the response's message is the
\* join of the messages of all results in validator order, those of allowing
\* results included, and its warnings are the warnings of all results in
\* validator order.
C22_MergedMessagesOfAllResults ==
    (/\ admPc = "done"
     /\ \A i \in 1..NumValidators : admResults[i].kind = "result")
    => /\ admResp.statusMessage =
              JoinMessages(admResults[1].messages \o admResults[2].messages
                           \o admResults[3].messages)
       /\ admResp.warnings =
              admResults[1].warnings \o admResults[2].warnings
              \o admResults[3].warnings

\* C28: every request that authorize does not accept (a missing header, a
\* hotkey outside the allowed signers, a nonce that is no number, a
\* signature that is no hex, a signature that does not verify) is answered
\* 401 Unauthorized and with no other error.
C28_EveryFailureIs401 ==
    (authPc = "done" /\ authOut # "ok") => authOut = "401"

\* C29: a validate_admission call adds one to the counter of its decision,
\* to the counters of its kind and of its operation with that decision and
\* to the duration count, and adds one to the error counter of every
\* validator that raised.
C29_MetricsRecorded ==
    [][(admPc = "pending" /\ admPc' = "done" /\ ~admEscaped')
       => LET d == Decision(admResp'.allowed)
          IN /\ metrics'.total[d] = metrics.total[d] + 1
             /\ metrics'.byKind[<<admReq.kind, d>>] =
                    metrics.byKind[<<admReq.kind, d>>] + 1
             /\ metrics'.byOperation[<<admReq.operation, d>>] =
                    metrics.byOperation[<<admReq.operation, d>>] + 1
             /\ metrics'.durationCount = metrics.durationCount + 1
             /\ \A i \in 1..NumValidators :
                    admResults[i].kind = "exception"
                    => metrics'.validatorErrors[i] =
                           metrics.validatorErrors[i] + 1]_vars

\* C30: reconcile is never executing (suspended at one of its awaits) on a
\* snapshot while the download task of that snapshot is running.
C30_NoReconcileWhileDownloading ==
    ~(snap.recPc \in {"info", "verify"} /\ snap.task = "running")

\* C26: for the request of a validate() call that runs the rules and for
\* every behaviour of the verifier, any two iteration orders of the rule
\* set give the same decision and the same set of violations.
C26_RuleOrderIrrelevant ==
    \A s \in Slots :
        LET req == slots[s].req
        IN (/\ slots[s].pc # "idle"
            /\ req.kind \in PodKinds /\ req.operation # "DELETE"
            /\ req.images # <<>>)
           => \A verdict \in VerifierBehaviours(req.images) :
              \A o1, o2 \in ChutesRuleOrders :
                 LET v1 == ViolationsWith(req, o1, verdict)
                     v2 == ViolationsWith(req, o2, verdict)
                 IN /\ ResultFor(v1).allowed = ResultFor(v2).allowed
                    /\ {v1[i] : i \in DOMAIN v1} = {v2[i] : i \in DOMAIN v2}

\* C23: when the call to the policy engine times out, answers with a status
\* other than 200 or raises, the policy validator denies the request, in
\* every enforcement mode (warn and monitor included), and on a timeout
\* with the message "Policy validation timeout".
C23_PolicyEngineFailureDenies ==
    (/\ valPc = "done" /\ valWho = "opa"
     /\ ~IsNamespaceExempt(valReq.namespace)
     /\ valReply.kind \in {"timeout", "raise", "status_500"})
    => /\ ~valOut.allowed
       /\ valOut.warnings = <<>>
       /\ valReply.kind = "timeout"
             => valOut.messages = <<<<"Policy validation timeout">>>>

\* The policy engine has timed out for a request in a namespace in monitor
\* mode, and the request is denied.
C23_Witness ==
    /\ valPc = "done" /\ valWho = "opa"
    /\ EnforcementMode(valReq.namespace) = "monitor"
    /\ ~IsNamespaceExempt(valReq.namespace)
    /\ valReply.kind = "timeout"
    /\ ~valOut.allowed

\* C24: for a 200 answer of the policy engine, the policy validator allows
\* without a warning only when the result list is empty (or missing); for a
\* result list that is not empty every item gives a violation, so that in
\* enforce mode the request is denied.
C24_NonEmptyResultNeverSilent ==
    (/\ valPc = "done" /\ valWho = "opa"
     /\ ~IsNamespaceExempt(valReq.namespace)
     /\ valReply.kind = "ok"
     /\ valReply.result.has /\ valReply.result.items # <<>>)
    => /\ ~(valOut.allowed /\ valOut.warnings = <<>>)
       /\ Len(QueryOpa(valReply).violations) = Len(valReply.result.items)
       /\ EnforcementMode(valReq.namespace) = "enforce" => ~valOut.allowed

\* C25: the registry validator and the policy validator turn violations
\* into a result by enforcement mode in the same way: in monitor and warn
\* mode the request is allowed and the violations are carried by one
\* warning, in enforce mode it is denied and they are carried by the message.
C25_ViolationsByMode ==
    LET mode == EnforcementMode(valReq.namespace)
        violations == IF valWho = "registry" THEN RegistryViolations(valReq.images)
                      ELSE QueryOpa(valReply).violations
        checked == /\ valPc = "done"
                   /\ ~IsNamespaceExempt(valReq.namespace)
                   /\ IF valWho = "registry"
                      THEN valReq.kind \in RegistryKinds /\ valReq.operation # "DELETE"
                      ELSE QueryOpa(valReply).raised = None
        joined == JoinViolations(violations)
        Carries(text) == /\ Len(text) >= Len(joined)
                         /\ SubSeq(text, Len(text) - Len(joined) + 1, Len(text)) = joined
    IN (checked /\ violations # <<>>)
       => IF mode \in {"monitor", "warn"}
          THEN /\ valOut.allowed
               /\ valOut.messages = <<>>
               /\ Len(valOut.warnings) = 1
               /\ Carries(valOut.warnings[1])
          ELSE /\ ~valOut.allowed
               /\ valOut.warnings = <<>>
               /\ Len(valOut.messages) = 1
               /\ Carries(valOut.messages[1])

\* The registry validator has allowed, with a warning, a request in a
\* namespace in warn mode that names two images of disallowed registries.
C25_Witness ==
    /\ valPc = "done" /\ valWho = "registry"
    /\ EnforcementMode(valReq.namespace) = "warn"
    /\ Len(RegistryViolations(valReq.images)) = 2
    /\ valOut.allowed
    /\ Len(valOut.warnings) = 1

\* C27: cleanup removes every candidate whose last access is older than
\* max_age_days; then, if the candidates left exceed the size cap, it
\* removes the largest first until the total is within the cap, and no
\* more. On return the surviving candidates total at most the cap,
\* freed_bytes is the sum of the sizes of the removed candidates and
\* removed_chutes names each removed chute exactly once.
C27_CleanupByAgeThenSize ==
    LET cands == Candidates(cleanupIn.entries, cleanupIn.pattern)
        cap == cleanupIn.maxSizeGb * GiB
        cutoff == CleanupNow - (cleanupIn.maxAgeDays * SecondsPerDay)
        removed == cleanupOut.removed
        Gone(c) == \E i \in DOMAIN removed : removed[i] = c
        old == {i \in DOMAIN cands : cands[i].lastAcc < cutoff}
        young == DOMAIN cands \ old
        bySize == {i \in young : Gone(cands[i].chute)}
        kept == {i \in young : ~Gone(cands[i].chute)}
        Total(S) == TotalSize(SelectSeq([i \in DOMAIN cands |->
                                            IF i \in S THEN cands[i]
                                            ELSE [cands[i] EXCEPT !.size = 0]],
                                        LAMBDA c : TRUE))
    IN cleanupPc = "done"
       => /\ \A i \in old : Gone(cands[i].chute)
          /\ \A i \in DOMAIN removed : \E j \in DOMAIN cands : cands[j].chute = removed[i]
          /\ \A i, j \in DOMAIN removed : removed[i] = removed[j] => i = j
          /\ Total(kept) <= cap
          /\ Total(young) <= cap => bySize = {}
          /\ \A i \in bySize :
                /\ \A j \in kept : cands[j].size <= cands[i].size
                /\ Total(kept) + cands[i].size > cap
          /\ cleanupOut.freed = Total(old \cup bySize)
          /\ cleanupOut.tracked =
                {c \in DOMAIN cleanupIn.entries :
                    cleanupIn.entries[c].tracked /\ ~Gone(c)}

\* A cleanup has removed one candidate for its age and the larger of the
\* other two for the size cap, and has kept the smaller one.
C27_Witness ==
    /\ cleanupPc = "done"
    /\ cleanupIn.maxAgeDays = 5 /\ cleanupIn.maxSizeGb = 1
    /\ cleanupOut.removed = <<"c1", "c3">>
    /\ cleanupIn.entries["c1"].lastAcc = 0
    /\ cleanupIn.entries["c2"].size < cleanupIn.entries["c3"].size
    /\ cleanupOut.tracked = {"c2"}

C39_NoReconcileAfterTask ==
    [][/\ (snap.recPc = "pending" /\ snap'.recPc # "pending") => snap.task = "none"
       /\ SnapStatus = "FAILED" => (SnapStatus' = "FAILED" \/ snap'.task = "running")]_vars

\* C31: a delete that removes a chute whose download is running leaves the
\* chute untracked, its task cancelled and its directory absent, and a
\* download whose task has been cancelled writes nothing afterwards.
C31_RemovedDownloadWritesNothing ==
    [][/\ (/\ mgrStep'.op = "delete" /\ mgrStep'.status = "deleted"
           /\ mgrStep'.wasRunning # {})
          => /\ chutes'[mgrStep'.chute] = 0
             /\ objs'[mgrStep'.obj].task \in {"cancelling", "cancelled"}
             /\ mgrDisk'[mgrStep'.chute] = "none"
       /\ mgrStep'.op = "task_write"
          => objs[mgrStep'.obj].task \notin {"cancelling", "cancelled"}]_vars

RECURSIVE ConsideredFrom(_, _)
ConsideredFrom(items, k) ==
    IF k > Len(items) THEN <<>>
    ELSE IF PathStartsWithUnderscore(items[k].path)
         THEN ConsideredFrom(items, k + 1)
         ELSE <<items[k]>> \o ConsideredFrom(items, k + 1)

EntryHash(item) == IF item.is_lfs THEN item.sha256 ELSE item.blob_id

EntryExists(item, dir) == dir.exists /\ dir.files[item.path].kind # "absent"

EntrySkipped(item) == EntryHash(item) = NoHash \/ EntryHash(item).length = 40

EntrySizeOk(item, dir) == item.size = NoSize \/ dir.files[item.path].size = item.size

EntryHashOk(item, dir) ==
    (dir.files[item.path].kind = "symlink" /\ dir.files[item.path].blob.length = 64)
        => dir.files[item.path].blob = EntryHash(item)

\* The error the claim names for one entry, None when the entry is in order.
EntryOffence(item, dir) ==
    IF ~EntryExists(item, dir) THEN "Missing file"
    ELSE IF EntrySkipped(item) THEN None
    ELSE IF ~EntrySizeOk(item, dir) THEN "Size mismatch"
    ELSE IF ~EntryHashOk(item, dir) THEN "Hash mismatch"
    ELSE None

RECURSIVE FirstOffence(_, _, _)
FirstOffence(entries, k, dir) ==
    IF k > Len(entries) THEN [error |-> None, path |-> <<>>]
    ELSE IF EntryOffence(entries[k], dir) # None
         THEN [error |-> EntryOffence(entries[k], dir), path |-> entries[k].path]
         ELSE FirstOffence(entries, k + 1, dir)

\* C34: verify_cache succeeds exactly when every manifest entry whose path
\* does not start with "_" exists locally and is either skipped (hash absent
\* or 40 characters) or matches in size and in the 64-character name of its
\* blob; otherwise it fails with Missing file, Size mismatch or Hash mismatch
\* for the first offending entry. Stated for calls that find the snapshot
\* directory of the revision.
C34_VerifyCacheExactly ==
    (verifyPc = "done" /\ verifyIn.dir.exists) =>
        LET first == FirstOffence(ConsideredFrom(verifyIn.items, 1), 1, verifyIn.dir)
        IN  IF first.error = None
            THEN verifyOut.ok
            ELSE /\ ~verifyOut.ok
                 /\ verifyOut.error = first.error
                 /\ verifyOut.path = first.path

\* TRUE when the step ends validate() of slot s with the given outcome.
EndsWith(s, outcome) ==
    /\ slots[s].pc # "done"
    /\ slots'[s].pc = "done"
    /\ slots'[s].outcome = outcome

\* C37: the denial built after a RateLimitError is stored in the
\* admission-result cache like any other denial, and a later request with
\* the same key is answered with it from that cache, whatever
\* rate_limit_until says, for as long as the entry lives.
C37_RateLimitDenialCached ==
    [][\A s \in Slots :
          /\ EndsWith(s, "ratelimit") =>
                /\ ~slots'[s].result.allowed
                /\ Live(admissionCache', AdmissionCacheKey(slots'[s].req), cosNow')
                /\ Lookup(admissionCache', AdmissionCacheKey(slots'[s].req))
                      = slots'[s].result
          /\ (/\ slots[s].pc = "idle"
              /\ slots'[s].pc = "done"
              /\ Live(admissionCache, AdmissionCacheKey(slots'[s].req), cosNow)
              /\ slots'[s].outcome # "skipped") =>
                /\ slots'[s].outcome = "hit"
                /\ slots'[s].calls = 0
                /\ slots'[s].result
                      = Lookup(admissionCache, AdmissionCacheKey(slots'[s].req))]_vars

\* A request is denied from the cache with the rate-limit text after the
\* backoff has elapsed.
C37_Witness ==
    \E s \in Slots :
       /\ slots[s].pc = "done"
       /\ slots[s].outcome = "hit"
       /\ slots[s].result = ResultDeny(<<RateLimitViolation>>)
       /\ rateLimitUntil # 0
       /\ cosNow >= rateLimitUntil
       /\ Live(admissionCache, AdmissionCacheKey(slots[s].req), cosNow)

\* TRUE when requests a and b carry the same X-Hotkey, X-Nonce and
\* X-Signature and reach endpoints with the same purpose and signer set.
SameTripleSameProtection(a, b) ==
    /\ a.hotkey = b.hotkey
    /\ a.nonce = b.nonce
    /\ a.signature = b.signature
    /\ a.purpose = b.purpose
    /\ a.allowMiner = b.allowMiner
    /\ a.allowValidator = b.allowValidator

\* C38: the headers that authorized one request without a body authorize,
\* within the nonce window, every other request without a body to an
\* endpoint with the same purpose and signer set, whatever its method and
\* path.
C38_BodylessTripleReusable ==
    (/\ authPc = "done"
     /\ authIn.body = None
     /\ authIn.now - authIn.nonce.val < NonceWindow
     /\ \E a \in authLog : a.body = None /\ SameTripleSameProtection(a, authIn))
    => authOut = "ok"

\* The headers of an authorized GET /cache/overview have authorized a
\* DELETE /cache/c1.
C38_Witness ==
    /\ authPc = "done"
    /\ authOut = "ok"
    /\ authIn.method = "DELETE"
    /\ authIn.path = "/cache/c1"
    /\ authIn.body = None
    /\ \E a \in authLog :
          /\ a.method = "GET"
          /\ a.path = "/cache/overview"
          /\ a.body = None
          /\ SameTripleSameProtection(a, authIn)

\* TRUE when the step is run_download of chute c returning after
\* set_completed.
CompletesDownload(c) ==
    \E t \in DOMAIN dlTasks :
       /\ dlTasks[t].chute = c
       /\ dlTasks[t].pc = "verifying"
       /\ dlTasks'[t].pc = "completed"

\* TRUE when the step is run_download of chute c registering itself.
StartsDownload(c) ==
    \E t \in DOMAIN dlTasks :
       /\ dlTasks[t].chute = c
       /\ dlTasks[t].pc = "created"
       /\ dlTasks'[t].pc = "downloading"

\* TRUE when the step is a delete request for chute c being answered.
AnswersDelete(h, c) ==
    /\ dlHandlers[h].pc = "idle"
    /\ dlHandlers'[h].pc = "done"
    /\ dlHandlers'[h].op = "delete"
    /\ dlHandlers'[h].chute = c

\* TRUE when the step is a cleanup being answered.
AnswersCleanup(h) ==
    /\ dlHandlers[h].pc = "idle"
    /\ dlHandlers'[h].pc = "done"
    /\ dlHandlers'[h].op = "cleanup"

\* C40, first part: an entry of download_state is removed only by its
\* download completing.
C40_RemovedOnlyOnSuccess ==
    \A c \in DownloadChutes :
       (dlState[c] # None /\ dlState'[c] = None) => CompletesDownload(c)

\* C40, second part: a FAILED entry stays FAILED until a download for the
\* chute starts.
C40_FailedStays ==
    \A c \in DownloadChutes :
       (dlState[c] = "failed" /\ dlState'[c] # "failed") => StartsDownload(c)

\* C40, third part: while the entry is FAILED a delete for an existing
\* directory answers 409 and cleanup leaves the chute alone.
C40_FailedBlocks ==
    \A c \in DownloadChutes : \A h \in Handlers :
       dlState[c] = "failed" =>
          /\ (AnswersDelete(h, c) /\ PathExists(dlDisk[c])) =>
                (dlHandlers'[h].status = "409" /\ dlDisk'[c] = dlDisk[c])
          /\ AnswersCleanup(h) =>
                (c \notin dlHandlers'[h].removed /\ dlDisk'[c] = dlDisk[c])

\* C40: in download_state an entry is removed only when its download
\* completes; after a failed download it stays FAILED until a later download
\* of the chute starts, and meanwhile a delete for an existing directory
\* answers 409 and cleanup skips the chute.
C40_FailedEntryBlocks ==
    [][C40_RemovedOnlyOnSuccess /\ C40_FailedStays /\ C40_FailedBlocks]_vars

\* C36: no per-image cache key is in the positive result cache and in the
\* negative result cache at the same time, also under overlapping requests.
C36_PositiveNegativeDisjoint ==
    \A e \in resultCache :
       ~(Live(resultCache, e.key, cosNow) /\ Live(negativeCache, e.key, cosNow))

\* The outcomes after which validate() stores its result.
StoringOutcomes == {"computed", "ratelimit", "paused"}

\* TRUE when slots s and r hold two validate() calls with the same cache key
\* that were in flight together and both stored a result: neither was a
\* cache hit and no time has passed.
Overlapped(s, r) ==
    /\ s # r
    /\ slots[s].pc = "done"
    /\ slots[r].pc = "done"
    /\ AdmissionCacheKey(slots[s].req) = AdmissionCacheKey(slots[r].req)
    /\ slots[s].outcome \in StoringOutcomes
    /\ slots[r].outcome \in StoringOutcomes
    /\ cosTicks = 0

EntersValidate(s) ==
    /\ slots[s].pc = "idle"
    /\ slots'[s].pc # "idle"
    /\ slots'[s].outcome # "skipped"

\* TRUE when the step is _verify_image_signature of slot s going on after
\* its reference was resolved, with neither per-image cache holding the key.
ResolvesUncached(s) ==
    /\ slots[s].pc = "resolve"
    /\ slots'[s].pc # "resolve"
    /\ LET img == slots[s].req.images[slots[s].idx]
           key == MakeCacheKey(slots'[s].ref, img)
       IN /\ slots'[s].idx = slots[s].idx
          /\ ~Live(resultCache, key, cosNow)
          /\ ~Live(negativeCache, key, cosNow)
          /\ ImageConfig(img).publicKey # None

====
